---- MODULE Spec2Model ----
(***************************************************************************)
(* Model of the Future Self Bridge (FutureSelfBridge.execute and its       *)
(* helpers) and of the rolling Memory Manager (MemoryManager) of the       *)
(* Schema.ICU SDK.                                                         *)
(*                                                                         *)
(* The Memory Manager is modelled at the granularity of JavaScript's       *)
(* run-to-completion blocks: every action is the code that runs between    *)
(* two suspension points (await) of one asynchronous call.                 *)
(***************************************************************************)
EXTENDS Integers, Sequences, FiniteSets, TLC

(***************************************************************************)
(* Bounds of the exploration.                                              *)
(***************************************************************************)
MaxAdds == 5                \* addInteraction calls in one behaviour
MaxOverlapAdds == 3         \* addInteraction calls in one behaviour with overlapping calls
MaxPersistAdds == 3         \* addInteraction calls in one behaviour with reloads
MaxConfigInteractions == 2  \* largest configured maxInteractions explored
MaxConfigSummaries == 2     \* largest configured maxSummaries explored
MaxTasks == 2               \* addInteraction calls that may be in flight at once
MaxRestarts == 1            \* managers constructed on the file of an earlier one
MaxConfigRetries == 2       \* largest maxRetries option explored
ScenarioAdds == 25          \* addInteraction calls of the documented scenarios
MaxMemoryRequests == 2      \* planner requests after which no executeWithMemory starts
MaxClientRequests == 2   \* planner requests issued through one client
MaxSchemaCalls == 2      \* planSchema calls on one bridge
MaxMissing == 5             \* missing-context items of an analysed result

Tasks == 1..MaxTasks

(***************************************************************************)
(* JavaScript values.  Undefined is the value undefined held by a property *)
(* that exists; Absent marks a property that the object does not have.     *)
(***************************************************************************)
Undefined == "undefined"
Absent == "absent"
Null == "null"

Roles == {"user", "assistant"}
Texts == {"text", Undefined}

\* The turns callers add: a user turn carries the query, a string (which
\* _createBasicSummary relies on: it takes text.substring of user turns); an
\* assistant turn carries result.response, which may be undefined.
Turns == {[role |-> "user", text |-> "text"]}
             \cup {[role |-> "assistant", text |-> x] : x \in Texts}

Min(a, b) == IF a < b THEN a ELSE b
Max(a, b) == IF a > b THEN a ELSE b

\* Array.prototype.slice(start, end) on a sequence (0-based, end exclusive).
Slice(s, start, end) ==
    LET rel(k) == IF k < 0 THEN Max(Len(s) + k, 0) ELSE Min(k, Len(s))
    IN  SubSeq(s, rel(start) + 1, rel(end))

\* Array.prototype.slice(start): from start to the end of the array.
SliceFrom(s, start) == Slice(s, start, Len(s))

RECURSIVE SumCounts(_)
\* toCompress.reduce((sum, s) => sum + s.range.count, 0)
SumCounts(s) == IF s = <<>> THEN 0 ELSE s[1].range.count + SumCounts(Tail(s))

VARIABLES
    maxInteractions,  \* this.maxInteractions
    maxSummaries,     \* this.maxSummaries
    summaryAgent,     \* TRUE iff a summarization collaborator is configured
    persistToFile,    \* this.persistToFile
    interactions,     \* this.interactions
    summaries,        \* this.summaries
    totalCount,       \* this.totalCount
    file,             \* the same-day memory file: <<>> (no file) or <<document>>
    loader,           \* the constructor's un-awaited _initializeFileSystem call
    tasks,            \* the addInteraction calls in flight: pc and captured locals
    clock,            \* Date.now(), one tick per addInteraction
    ghost,            \* history of the manager's run, read only by the properties
    epc,              \* position of the execute call
    call,             \* its arguments: agentType, maxRetries, autoRetry
    attempt,          \* let attempt
    accumulatedContext, \* let accumulatedContext
    cycle,            \* the current cycle: schema planned, execution, awareness
    counts,           \* requests issued and results analysed by the execute call
    result,           \* what the execute call returned or threw
    tick,             \* the clock advances between two reads of Date.now()
    client,           \* the SchemaICU client: its setting and the last call made through it
    peer              \* a second execute call and a second manager, and the context
                      \* object the caller hands to both execute calls

execVars == <<epc, call, attempt, accumulatedContext, cycle, counts, result>>

memVars == <<maxInteractions, maxSummaries, summaryAgent, persistToFile,
             interactions, summaries, totalCount, file, loader, tasks, clock, ghost,
             tick>>

vars == <<memVars, execVars, client, peer>>

(***************************************************************************)
(* Memory Manager: pure parts.                                             *)
(***************************************************************************)

\* A fold that takes only the interactions in excess of the maximum.
ToCompressInteractions_Excess(ints, maxI) == Slice(ints, 0, Len(ints) - maxI)

\* A slice that yields nothing when its end lies beyond the array.
ToCompressInteractions_Unclamped(ints, maxI) ==
    IF Len(ints) - maxI + 1 > Len(ints) THEN <<>> ELSE Slice(ints, 0, Len(ints) - maxI + 1)

\* const toCompress = this.interactions.slice(0, length - maxInteractions + 1)
ToCompressInteractions(ints, maxI) == Slice(ints, 0, Len(ints) - maxI + 1)

\* A sign slip in the number of summaries to fold.
ToCompressSummaries_SignSlip(sums, maxS) == Slice(sums, 0, Len(sums) - maxS - 1)

\* const toCompress = this.summaries.slice(0, length - maxSummaries + 1)
ToCompressSummaries(sums, maxS) == Slice(sums, 0, Len(sums) - maxS + 1)

(***************************************************************************)
(* JSON.stringify followed by JSON.parse: a property whose value is        *)
(* undefined is omitted from the document, so it is absent after parsing.  *)
(***************************************************************************)
JSONText(v) == IF v = Undefined THEN Absent ELSE v

\* _createHash(data): the SHA-256 digest of JSON.stringify(data), kept as the
\* document digested; data is given as JSON.stringify leaves it.
CreateHash(data) == [sha256 |-> data]

\* The hash addInteraction stores: this._createHash({ role, text, ts }).
InteractionHash(role, text, ts) ==
    CreateHash([role |-> role, text |-> JSONText(text), ts |-> ts])

\* The hash a summary literal stores: ts is read from Date.now() at now, and
\* the hash digests a second reading of Date.now().
SummaryHash(text, now) ==
    CreateHash([text |-> JSONText(text), ts |-> IF tick THEN now + 1 ELSE now])

\* The summary object built from the captured block toCompress.
\* metaLevel = FALSE stands for a range without the metaLevel property.
Summary(toCompress, text, now) ==
    [range |-> [start |-> toCompress[1].ts,
                end |-> toCompress[Len(toCompress)].ts,
                count |-> Len(toCompress),
                metaLevel |-> FALSE],
     text |-> text,
     ts |-> now,
     hash |-> SummaryHash(text, now)]

\* A meta-summary whose range ends where the oldest folded summary ends.
MetaSummary_EndOfOldest(toCompress, text, now) ==
    [range |-> [start |-> toCompress[1].range.start,
                end |-> toCompress[1].range.end,
                count |-> SumCounts(toCompress),
                metaLevel |-> TRUE],
     text |-> text,
     ts |-> now,
     hash |-> SummaryHash(text, now)]

\* A meta-summary that counts the folded summaries instead of their interactions.
MetaSummary_CountsBlocks(toCompress, text, now) ==
    [range |-> [start |-> toCompress[1].range.start,
                end |-> toCompress[Len(toCompress)].range.end,
                count |-> Len(toCompress),
                metaLevel |-> TRUE],
     text |-> text,
     ts |-> now,
     hash |-> SummaryHash(text, now)]

\* The meta-summary object built from the captured summaries toCompress.
MetaSummary(toCompress, text, now) ==
    [range |-> [start |-> toCompress[1].range.start,
                end |-> toCompress[Len(toCompress)].range.end,
                count |-> SumCounts(toCompress),
                metaLevel |-> TRUE],
     text |-> text,
     ts |-> now,
     hash |-> SummaryHash(text, now)]

\* A fold of summaries that keeps nothing but the meta-summary.
FoldSummaries_MetaOnly(sums, toCompress, text, now) ==
    <<MetaSummary(toCompress, text, now)>>

\* A fold that puts the new summary before the existing ones.
FoldInteractions_Prepends(ints, sums, toCompress, text, now) ==
    [interactions |-> SliceFrom(ints, Len(toCompress)),
     summaries |-> <<Summary(toCompress, text, now)>> \o sums]

\* A fold that keeps the last folded interaction in the active list.
FoldInteractions_KeepsLast(ints, sums, toCompress, text, now) ==
    [interactions |-> SliceFrom(ints, Len(toCompress) - 1),
     summaries |-> Append(sums, Summary(toCompress, text, now))]

\* this.summaries.push(summary);
\* this.interactions = this.interactions.slice(toCompress.length)
FoldInteractions(ints, sums, toCompress, text, now) ==
    [interactions |-> SliceFrom(ints, Len(toCompress)),
     summaries |-> Append(sums, Summary(toCompress, text, now))]

\* A fold of summaries that puts the meta-summary after the summaries kept.
FoldSummaries_MetaLast(sums, toCompress, text, now) ==
    SliceFrom(sums, Len(toCompress)) \o <<MetaSummary(toCompress, text, now)>>

\* this.summaries = [metaSummary, ...this.summaries.slice(toCompress.length)]
FoldSummaries(sums, toCompress, text, now) ==
    <<MetaSummary(toCompress, text, now)>> \o SliceFrom(sums, Len(toCompress))

\* summaryText: the collaborator's result.summary || result.response (which
\* may be undefined), or the local fallback when the collaborator throws.
SummarizeOutcomes == {"ok", "notext", "fail"}
SummaryText(outcome) ==
    CASE outcome = "ok" -> "agent-summary"
      [] outcome = "notext" -> Undefined
      [] OTHER -> "basic-summary"
MetaSummaryText(outcome) ==
    CASE outcome = "ok" -> "agent-meta"
      [] outcome = "notext" -> Undefined
      [] OTHER -> "basic-meta"

RECURSIVE JSONInteractions(_)
JSONInteractions(ints) ==
    IF ints = <<>> THEN <<>>
    ELSE <<[role |-> ints[1].role, text |-> JSONText(ints[1].text), ts |-> ints[1].ts,
           hash |-> ints[1].hash]>>
         \o JSONInteractions(Tail(ints))

RECURSIVE JSONSummaries(_)
JSONSummaries(sums) ==
    IF sums = <<>> THEN <<>>
    ELSE <<[range |-> sums[1].range, text |-> JSONText(sums[1].text), ts |-> sums[1].ts,
           hash |-> sums[1].hash]>>
         \o JSONSummaries(Tail(sums))

\* The document _saveToFile writes (lastUpdated and signatureAlgorithm are
\* written too, but never read back).
MemoryData(ints, sums, total) ==
    [interactions |-> JSONInteractions(ints),
     summaries |-> JSONSummaries(sums),
     totalCount |-> total]

(***************************************************************************)
(* Memory Manager: the asynchronous calls.                                 *)
(***************************************************************************)
IdleTask == [pc |-> "idle", toCompress |-> <<>>, doc |-> <<>>]
SaveTask == [pc |-> "save", toCompress |-> <<>>, doc |-> <<>>]

AllIdle == \A t \in Tasks : tasks[t].pc = "idle"

\* Calls have no identity in the program: a new call takes the lowest free slot.
FreeSlot == CHOOSE t \in Tasks : /\ tasks[t].pc = "idle"
                                 /\ \A u \in Tasks : u < t => tasks[u].pc # "idle"

\* A _saveToFile that serializes the active interactions only.
SaveToFileSync_ActiveOnly(ints, sums, total) ==
    IF ~persistToFile THEN IdleTask
    ELSE [pc |-> "write", toCompress |-> <<>>, doc |-> <<MemoryData(ints, <<>>, total)>>]

\* _saveToFile up to its await: nothing when persistence is off, otherwise
\* the document is serialized now and the write is issued.
SaveToFileSync(ints, sums, total) ==
    IF ~persistToFile THEN IdleTask
    ELSE [pc |-> "write", toCompress |-> <<>>, doc |-> <<MemoryData(ints, sums, total)>>]

\* _compressOldSummaries up to its first await, run when the summaries list
\* is too long after a fold of interactions.
CompressOldSummariesSync(ints, sums, now) ==
    IF Len(sums) > maxSummaries
    THEN LET toCompress == ToCompressSummaries(sums, maxSummaries) IN
         IF Len(toCompress) = 0
         THEN [interactions |-> ints, summaries |-> sums, task |-> SaveTask]
         ELSE IF summaryAgent
         THEN [interactions |-> ints, summaries |-> sums,
               task |-> [pc |-> "sumS", toCompress |-> toCompress, doc |-> <<>>]]
         ELSE [interactions |-> ints,
               summaries |-> FoldSummaries(sums, toCompress, MetaSummaryText("fail"), now),
               task |-> SaveTask]
    ELSE [interactions |-> ints, summaries |-> sums, task |-> SaveTask]

\* A _compressOldInteractions that suspends before it folds, whether or not
\* there is a collaborator to wait for.
CompressOldInteractionsSync_Suspends(ints, sums, now) ==
    LET toCompress == ToCompressInteractions(ints, maxInteractions) IN
    IF Len(toCompress) = 0
    THEN [interactions |-> ints, summaries |-> sums, task |-> SaveTask]
    ELSE [interactions |-> ints, summaries |-> sums,
          task |-> [pc |-> "sumI", toCompress |-> toCompress, doc |-> <<>>]]

\* _compressOldInteractions up to its first await.
CompressOldInteractionsSync(ints, sums, now) ==
    LET toCompress == ToCompressInteractions(ints, maxInteractions) IN
    IF Len(toCompress) = 0
    THEN [interactions |-> ints, summaries |-> sums, task |-> SaveTask]
    ELSE IF summaryAgent
    THEN [interactions |-> ints, summaries |-> sums,
          task |-> [pc |-> "sumI", toCompress |-> toCompress, doc |-> <<>>]]
    ELSE LET f == FoldInteractions(ints, sums, toCompress, SummaryText("fail"), now)
         IN  CompressOldSummariesSync(f.interactions, f.summaries, now)

\* An addInteraction that counts the active interactions instead of the calls.
AddInteraction_CountsActive(t, role, text) ==
    /\ tasks[t].pc = "idle"
    /\ LET now == clock + 1
           pushed == Append(interactions, [role |-> role, text |-> text, ts |-> now,
                                          hash |-> InteractionHash(role, text, now)])
           r == IF Len(pushed) > maxInteractions
                THEN CompressOldInteractionsSync(pushed, summaries, now)
                ELSE [interactions |-> pushed, summaries |-> summaries,
                      task |-> SaveToFileSync(pushed, summaries, totalCount + 1)]
       IN  /\ clock' = now
           /\ totalCount' = Len(pushed)
           /\ interactions' = r.interactions
           /\ summaries' = r.summaries
           /\ tasks' = [tasks EXCEPT ![t] = r.task]
           /\ ghost' = [ghost EXCEPT !.adds = @ + 1,
                                     !.overlap = @ \/ ~AllIdle]
    /\ UNCHANGED <<execVars, client, peer, tick, maxInteractions, maxSummaries, summaryAgent, persistToFile, file, loader>>

\* addInteraction(interaction) up to its first await.
AddInteraction(t, role, text) ==
    /\ tasks[t].pc = "idle"
    /\ LET now == clock + 1
           pushed == Append(interactions, [role |-> role, text |-> text, ts |-> now,
                                          hash |-> InteractionHash(role, text, now)])
           r == IF Len(pushed) > maxInteractions
                THEN CompressOldInteractionsSync(pushed, summaries, now)
                ELSE [interactions |-> pushed, summaries |-> summaries,
                      task |-> SaveToFileSync(pushed, summaries, totalCount + 1)]
       IN  /\ clock' = now
           /\ totalCount' = totalCount + 1
           /\ interactions' = r.interactions
           /\ summaries' = r.summaries
           /\ tasks' = [tasks EXCEPT ![t] = r.task]
           /\ ghost' = [ghost EXCEPT !.adds = @ + 1,
                                     !.overlap = @ \/ ~AllIdle]
    /\ UNCHANGED <<execVars, client, peer, tick, maxInteractions, maxSummaries, summaryAgent, persistToFile, file, loader>>

\* A fold without its catch: a failed summarize leaves the entries in place
\* and rejects the call.
SummarizeDone_NoFallback(t, outcome) ==
    /\ tasks[t].pc = "sumI"
    /\ LET f == IF outcome = "fail"
                THEN [interactions |-> interactions, summaries |-> summaries]
                ELSE FoldInteractions(interactions, summaries, tasks[t].toCompress,
                                      SummaryText(outcome), clock)
           r == IF outcome = "fail"
                THEN [interactions |-> interactions, summaries |-> summaries,
                      task |-> [pc |-> "threw", toCompress |-> <<>>, doc |-> <<>>]]
                ELSE CompressOldSummariesSync(f.interactions, f.summaries, clock)
       IN  /\ interactions' = r.interactions
           /\ summaries' = r.summaries
           /\ tasks' = [tasks EXCEPT ![t] = r.task]
    /\ UNCHANGED <<execVars, client, peer, tick, maxInteractions, maxSummaries, summaryAgent, persistToFile,
                   totalCount, file, loader, clock, ghost>>

\* _compressOldInteractions resumed when summaryAgent.summarize settles.
SummarizeDone(t, outcome) ==
    /\ tasks[t].pc = "sumI"
    /\ LET f == FoldInteractions(interactions, summaries, tasks[t].toCompress,
                                 SummaryText(outcome), clock)
           r == CompressOldSummariesSync(f.interactions, f.summaries, clock)
       IN  /\ interactions' = r.interactions
           /\ summaries' = r.summaries
           /\ tasks' = [tasks EXCEPT ![t] = r.task]
    /\ UNCHANGED <<execVars, client, peer, tick, maxInteractions, maxSummaries, summaryAgent, persistToFile,
                   totalCount, file, loader, clock, ghost>>

\* _compressOldSummaries resumed when summaryAgent.summarize settles.
MetaSummarizeDone(t, outcome) ==
    /\ tasks[t].pc = "sumS"
    /\ summaries' = FoldSummaries(summaries, tasks[t].toCompress,
                                  MetaSummaryText(outcome), clock)
    /\ tasks' = [tasks EXCEPT ![t] = SaveTask]
    /\ UNCHANGED <<execVars, client, peer, tick, maxInteractions, maxSummaries, summaryAgent, persistToFile,
                   interactions, totalCount, file, loader, clock, ghost>>

\* addInteraction resumed after `await this._compressOldInteractions()`:
\* it calls _saveToFile.
SaveToFile(t) ==
    /\ tasks[t].pc = "save"
    /\ tasks' = [tasks EXCEPT ![t] = SaveToFileSync(interactions, summaries, totalCount)]
    /\ UNCHANGED <<execVars, client, peer, tick, maxInteractions, maxSummaries, summaryAgent, persistToFile,
                   interactions, summaries, totalCount, file, loader, clock, ghost>>

\* A _saveToFile without its catch: a failed write rejects the call.
WriteDone_Rethrows(t, ok) ==
    /\ tasks[t].pc = "write"
    /\ file' = IF ok THEN tasks[t].doc ELSE file
    /\ tasks' = [tasks EXCEPT ![t] = IF ok THEN IdleTask
                                     ELSE [pc |-> "threw", toCompress |-> <<>>, doc |-> <<>>]]
    /\ UNCHANGED <<execVars, client, peer, tick, maxInteractions, maxSummaries, summaryAgent, persistToFile,
                   interactions, summaries, totalCount, loader, clock, ghost>>

\* fs.writeFile settles: the document replaces the file, or the error is logged.
WriteDone(t, ok) ==
    /\ tasks[t].pc = "write"
    /\ file' = IF ok THEN tasks[t].doc ELSE file
    /\ tasks' = [tasks EXCEPT ![t] = IdleTask]
    /\ UNCHANGED <<execVars, client, peer, tick, maxInteractions, maxSummaries, summaryAgent, persistToFile,
                   interactions, summaries, totalCount, loader, clock, ghost>>

\* clearMemory() up to its await: the lists and the count are reset and
\* _saveToFile is called.
ClearMemory(t) ==
    /\ tasks[t].pc = "idle"
    /\ interactions' = <<>>
    /\ summaries' = <<>>
    /\ totalCount' = 0
    /\ tasks' = [tasks EXCEPT ![t] = SaveToFileSync(<<>>, <<>>, 0)]
    /\ UNCHANGED <<execVars, client, peer, tick, maxInteractions, maxSummaries, summaryAgent, persistToFile,
                   file, loader, clock, ghost>>

\* A load that takes the number of active interactions for the total.
LoadedState_CountsActive(memoryData) ==
    [interactions |-> memoryData.interactions,
     summaries |-> memoryData.summaries,
     totalCount |-> Len(memoryData.interactions)]

\* The state _loadFromFile restores from the parsed document.
LoadedState(memoryData) ==
    [interactions |-> memoryData.interactions,
     summaries |-> memoryData.summaries,
     totalCount |-> memoryData.totalCount]

\* The manager's restorable state.
MemoryState == [interactions |-> interactions, summaries |-> summaries,
                totalCount |-> totalCount]

\* new MemoryManager({persistToFile: true, ...}) by a process that shares the
\* owner name, directory and day of the previous manager, which is quiescent
\* and dropped.  The constructor starts _initializeFileSystem and returns.
Construct ==
    /\ AllIdle
    /\ loader.pc = "done"
    /\ ghost.restarts < MaxRestarts
    /\ interactions' = <<>>
    /\ summaries' = <<>>
    /\ totalCount' = 0
    /\ persistToFile' = TRUE
    /\ loader' = [pc |-> "mkdir", data |-> <<>>]
    /\ ghost' = [adds |-> 0, overlap |-> FALSE, restarts |-> ghost.restarts + 1,
                 loaded |-> FALSE, prev |-> <<MemoryState>>,
                 prevSaved |-> (file = <<MemoryData(interactions, summaries, totalCount)>>),
                 found |-> file]
    /\ UNCHANGED <<execVars, client, peer, tick, maxInteractions, maxSummaries, summaryAgent, file, tasks, clock>>

\* fs.mkdir settles: on success _loadFromFile starts and issues fs.readFile,
\* on failure persistence is switched off.
MkdirDone(ok) ==
    /\ loader.pc = "mkdir"
    /\ loader' = [pc |-> IF ok THEN "read" ELSE "done", data |-> <<>>]
    /\ persistToFile' = (ok /\ persistToFile)
    /\ UNCHANGED <<execVars, client, peer, tick, maxInteractions, maxSummaries, summaryAgent, interactions,
                   summaries, totalCount, file, tasks, clock, ghost>>

\* fs.readFile reads the file: its content, ENOENT when there is none, or
\* another error.  Both errors are logged and end the load.
ReadFile(ok) ==
    /\ loader.pc = "read"
    /\ loader' = IF ok /\ file # <<>> THEN [pc |-> "parse", data |-> file]
                 ELSE [pc |-> "done", data |-> <<>>]
    /\ UNCHANGED <<execVars, client, peer, tick, maxInteractions, maxSummaries, summaryAgent, persistToFile,
                   interactions, summaries, totalCount, file, tasks, clock, ghost>>

\* _loadFromFile resumed with the data read: the parsed document replaces the state.
LoadFromFile ==
    /\ loader.pc = "parse"
    /\ LET m == LoadedState(loader.data[1])
       IN  /\ interactions' = m.interactions
           /\ summaries' = m.summaries
           /\ totalCount' = m.totalCount
    /\ loader' = [pc |-> "done", data |-> <<>>]
    /\ ghost' = [ghost EXCEPT !.loaded = TRUE]
    /\ UNCHANGED <<execVars, client, peer, tick, maxInteractions, maxSummaries, summaryAgent, persistToFile,
                   file, tasks, clock>>

(***************************************************************************)
(* Specifications of the Memory Manager.                                   *)
(***************************************************************************)
\* adds: calls of addInteraction on the current manager; overlap: one of them
\* started while another was in flight; restarts: managers constructed on an
\* earlier one's file; found: the file at construction; prev: the earlier
\* manager's state then; prevSaved: the file held that state; loaded: the
\* constructor's load has replaced the state.
NoGhost == [adds |-> 0, overlap |-> FALSE, restarts |-> 0, loaded |-> FALSE,
            prev |-> <<>>, prevSaved |-> FALSE, found |-> <<>>]

\* new SchemaICU(options): this.signatureAlgorithm = null; no call made yet.
NewClient == [signatureAlgorithm |-> Null, made |-> [via |-> "none"]]

\* No second call and an empty second manager.
NewPeer == [context |-> "caller context", result |-> <<>>,
            task |-> IdleTask, found |-> <<>>,
            epc |-> "idle", maxRetries |-> 0, autoRetry |-> FALSE,
            attempt |-> 0, accumulatedContext |-> <<>>,
            interactions |-> <<>>, summaries |-> <<>>, totalCount |-> 0]

NoExecute ==
    /\ epc = "off"
    /\ call = [agentType |-> "none", maxRetries |-> 0, autoRetry |-> FALSE,
             signatureAlgorithm |-> Undefined]
    /\ attempt = 0
    /\ accumulatedContext = <<>>
    /\ cycle = [status |-> "none"]
    /\ counts = [planner |-> 0, executor |-> 0, analysed |-> 0]
    /\ result = <<>>
    /\ client = NewClient
    /\ peer = NewPeer

\* A manager with nothing in it and no call in flight.
EmptyMemory ==
    /\ interactions = <<>>
    /\ summaries = <<>>
    /\ totalCount = 0
    /\ file = <<>>
    /\ tasks = [t \in Tasks |-> IdleTask]
    /\ clock = 0
    /\ ghost = NoGhost

\* A manager whose construction has finished with nothing to load.
InitMemory ==
    /\ maxInteractions \in 0..MaxConfigInteractions
    /\ maxSummaries \in 0..MaxConfigSummaries
    /\ summaryAgent \in BOOLEAN
    /\ persistToFile \in BOOLEAN
    /\ loader = [pc |-> "done", data |-> <<>>]
    /\ tick = FALSE
    /\ EmptyMemory
    /\ NoExecute

AddSerial == AllIdle /\ clock < MaxAdds /\ \E turn \in Turns : AddInteraction(FreeSlot, turn.role, turn.text)
Summarized == \E t \in Tasks, o \in SummarizeOutcomes : SummarizeDone(t, o)
MetaSummarized == \E t \in Tasks, o \in SummarizeOutcomes : MetaSummarizeDone(t, o)
Saved == \E t \in Tasks : SaveToFile(t)
Written == \E t \in Tasks, ok \in BOOLEAN : WriteDone(t, ok)

\* Calls of addInteraction that each complete before the next starts.
NextSerial == AddSerial \/ Summarized \/ MetaSummarized \/ Saved \/ Written
SpecSerial == InitMemory /\ [][NextSerial]_vars

\* The same calls on a manager without file, with a clock that may or may not
\* advance between the two readings of Date.now() in a summary literal.
InitHashes ==
    /\ maxInteractions \in 0..MaxConfigInteractions
    /\ maxSummaries \in 0..MaxConfigSummaries
    /\ summaryAgent \in BOOLEAN
    /\ persistToFile = FALSE
    /\ loader = [pc |-> "done", data |-> <<>>]
    /\ tick \in BOOLEAN
    /\ EmptyMemory
    /\ NoExecute
NextHashes == AddSerial \/ Summarized \/ MetaSummarized \/ Saved
SpecHashes == InitHashes /\ [][NextHashes]_vars

\* Overlapping calls on one manager.  Folding reads neither role nor text and
\* the file is written but never read by these calls, so they are explored
\* with one kind of turn and persistence off.
InitOverlap ==
    /\ maxInteractions \in 0..MaxConfigInteractions
    /\ maxSummaries \in 0..MaxConfigSummaries
    /\ summaryAgent \in BOOLEAN
    /\ persistToFile = FALSE
    /\ loader = [pc |-> "done", data |-> <<>>]
    /\ tick = FALSE
    /\ EmptyMemory
    /\ NoExecute

AddFirst == AllIdle /\ clock < MaxOverlapAdds /\ AddInteraction(FreeSlot, "user", "text")
AddOverlapping ==
    /\ ~AllIdle
    /\ \E t \in Tasks : tasks[t].pc = "idle"
    /\ clock < MaxOverlapAdds
    /\ AddInteraction(FreeSlot, "user", "text")
SummarizedEither == \E t \in Tasks, o \in {"ok", "fail"} : SummarizeDone(t, o)
MetaSummarizedEither == \E t \in Tasks, o \in {"ok", "fail"} : MetaSummarizeDone(t, o)

NextOverlap == AddFirst \/ AddOverlapping \/ SummarizedEither \/ MetaSummarizedEither \/ Saved
SpecOverlap == InitOverlap /\ [][NextOverlap]_vars

\* A manager with persistence on, right after its constructor returned, and
\* the managers constructed after it on the same file.
InitPersist ==
    /\ maxInteractions \in 1..MaxConfigInteractions
    /\ maxSummaries \in 1..MaxConfigSummaries
    /\ summaryAgent = FALSE
    /\ persistToFile = TRUE
    /\ loader = [pc |-> "mkdir", data |-> <<>>]
    /\ tick = FALSE
    /\ EmptyMemory
    /\ NoExecute

AddPersisted ==
    /\ AllIdle
    /\ clock < MaxPersistAdds
    /\ \E turn \in Turns : AddInteraction(FreeSlot, turn.role, turn.text)
MkdirSettled == \E ok \in BOOLEAN : MkdirDone(ok)
FileRead == \E ok \in BOOLEAN : ReadFile(ok)

NextPersist == Construct \/ MkdirSettled \/ FileRead \/ LoadFromFile
                 \/ AddPersisted \/ Saved \/ Written
SpecPersist == InitPersist /\ [][NextPersist]_vars

\* The configurations of the documented scenarios: the defaults of the
\* constructor and the small maxima of the compression test.
DefaultMaxInteractions == 21
DefaultMaxSummaries == 3
TestMaxInteractions == 3
TestMaxSummaries == 2

InitScenario ==
    /\ maxInteractions \in {DefaultMaxInteractions, TestMaxInteractions}
    /\ maxSummaries = IF maxInteractions = DefaultMaxInteractions
                      THEN DefaultMaxSummaries ELSE TestMaxSummaries
    /\ summaryAgent \in BOOLEAN
    /\ persistToFile \in BOOLEAN
    /\ loader = [pc |-> "done", data |-> <<>>]
    /\ tick = FALSE
    /\ EmptyMemory
    /\ NoExecute

AddScenario == AllIdle /\ clock < ScenarioAdds /\ AddInteraction(FreeSlot, "user", "text")

\* ScenarioAdds serialized calls on an empty manager.
NextScenario == AddScenario \/ SummarizedEither \/ MetaSummarizedEither \/ Saved \/ Written
SpecScenario == InitScenario /\ [][NextScenario]_vars

\* The file an earlier session of the same owner and day has left.
EarlierFile ==
    <<MemoryData(<<[role |-> "user", text |-> "text", ts |-> 0,
                    hash |-> InteractionHash("user", "text", 0)]>>, <<>>, 1)>>

\* One manager from its construction on, with or without an earlier file,
\* and clearMemory among its operations.  buildContext, getStats,
\* getRecentInteractions and getSummaries assign nothing.
InitLifetime ==
    /\ maxInteractions \in 1..MaxConfigInteractions
    /\ maxSummaries \in 1..MaxConfigSummaries
    /\ summaryAgent = FALSE
    /\ persistToFile = TRUE
    /\ loader = [pc |-> "mkdir", data |-> <<>>]
    /\ interactions = <<>>
    /\ summaries = <<>>
    /\ totalCount = 0
    /\ tick = FALSE
    /\ file \in {<<>>, EarlierFile}
    /\ tasks = [t \in Tasks |-> IdleTask]
    /\ clock = 0
    /\ ghost = [NoGhost EXCEPT !.found = file]
    /\ NoExecute

Cleared == AllIdle /\ ClearMemory(FreeSlot)

NextLifetime == MkdirSettled \/ FileRead \/ LoadFromFile
                  \/ AddPersisted \/ Cleared \/ Saved \/ Written
SpecLifetime == InitLifetime /\ [][NextLifetime]_vars

(***************************************************************************)
(* Future Self Bridge: pure parts.                                         *)
(***************************************************************************)
AgentTypes == {"code-generator", "email"}

\* The agent types getDefaultSchema is asked about.
SchemaAgentTypes == AgentTypes \cup {"summary", "email-summary", "terminal-agent"}

\* agentType.includes(part): the parts looked for that each name contains.
Includes(agentType, part) ==
    part \in CASE agentType = "code-generator" -> {"code", "generator"}
               [] agentType = "email" -> {"email"}
               [] agentType = "summary" -> {"summary"}
               [] agentType = "email-summary" -> {"email", "summary"}
               [] OTHER -> {}

\* A default schema built on one object that all the calls share and extend.
GetDefaultSchema_Shared(agentType) ==
    LET base == {"response", "includesCode", "code", "continue", "questionForUser",
                 "question", "missingContext"}
        email == IF Includes(agentType, "email") THEN {"subject", "tone"} ELSE {}
        summary == IF Includes(agentType, "summary") THEN {"keyPoints"} ELSE {}
        earlier == UNION {result[i].schema.properties : i \in DOMAIN result}
    IN  [source |-> "default",
         properties |-> base \cup email \cup summary \cup earlier,
         required |-> (base \ {"question"}) \cup email \cup summary]

\* getDefaultSchema(agentType): the property names and the required list.
GetDefaultSchema(agentType) ==
    LET base == {"response", "includesCode", "code", "continue", "questionForUser",
                 "question", "missingContext"}
        email == IF Includes(agentType, "email") THEN {"subject", "tone"} ELSE {}
        summary == IF Includes(agentType, "summary") THEN {"keyPoints"} ELSE {}
    IN  [source |-> "default",
         properties |-> base \cup email \cup summary,
         required |-> (base \ {"question"}) \cup email \cup summary]

\* What the schema endpoint may answer: a schema, a reply without one, or a
\* failure of the request.
PlannerReplies == {"schema", "noschema", "fail"}
PlannedSchema == [source |-> "planner", properties |-> {"response", "missingContext"},
                  required |-> {"response"}]

\* A planSchema that returns response.data.schema even when it is undefined.
PlanSchema_NoFallback(agentType, reply) ==
    CASE reply = "schema" -> PlannedSchema
      [] reply = "noschema" -> [source |-> "undefined", properties |-> {}, required |-> {}]
      [] OTHER -> GetDefaultSchema(agentType)

\* planSchema: response.data.schema || getDefaultSchema(agentType), and the
\* default schema again when the request throws.
PlanSchema(agentType, reply) ==
    IF reply = "schema" THEN PlannedSchema ELSE GetDefaultSchema(agentType)

\* The agent's reply.  A flag is the boolean true ("true"), the boolean
\* false ("false") or a truthy value that is not a boolean ("yes").
Flags == {"true", "false", "yes"}
Executions ==
    [response : {"partial answer"},
     missingContext : {<<>>, <<"project details">>},
     continue : Flags,
     questionForUser : {"true", "false"}]

(***************************************************************************)
(* The numbers of calculateConfidence are IEEE 754 doubles.  A double in   *)
(* [0, 1] is kept exactly, as hi * Limb + lo units of 2^-56; a result is   *)
(* rounded to the 53 significant bits of its binade, ties to even.         *)
(***************************************************************************)
Limb == 268435456
Zero == [hi |-> 0, lo |-> 0]
\* let score = 1.0
One == [hi |-> Limb, lo |-> 0]
\* The literal 0.2
PerMissingItem == [hi |-> 53687091, lo |-> 53687092]
\* The literal 0.15
FlagPenalty == [hi |-> 40265318, lo |-> 107374182]

DNorm(hi, lo) == [hi |-> hi + lo \div Limb, lo |-> lo % Limb]
DLeq(a, b) == a.hi < b.hi \/ (a.hi = b.hi /\ a.lo <= b.lo)
DMin(a, b) == IF DLeq(a, b) THEN a ELSE b
DMax(a, b) == IF DLeq(a, b) THEN b ELSE a

\* Units of 2^-56 in one unit of the last place of a value.
Ulp(x) == IF x.hi >= Limb THEN 16
          ELSE IF x.hi >= Limb \div 2 THEN 8
          ELSE IF x.hi >= Limb \div 4 THEN 4
          ELSE IF x.hi >= Limb \div 8 THEN 2
          ELSE 1

DRound(x) ==
    LET k == Ulp(x)
        r == x.lo % k
        down == x.lo - r
        up == IF 2 * r > k \/ (2 * r = k /\ (down \div k) % 2 = 1)
              THEN down + k ELSE down
    IN  DNorm(x.hi, up)

\* a * n for a small integer n.
DMulInt(a, n) == DRound(DNorm(a.hi * n, a.lo * n))

\* a - b.  A negative difference is kept as 0: every later step subtracts
\* again and the final Math.max(0, ...) returns 0 for it.
DSub(a, b) ==
    IF DLeq(a, b) THEN Zero
    ELSE IF a.lo >= b.lo
    THEN DRound([hi |-> a.hi - b.hi, lo |-> a.lo - b.lo])
    ELSE DRound([hi |-> a.hi - b.hi - 1, lo |-> a.lo + Limb - b.lo])

\* A calculateConfidence without the cap of three missing-context items.
CalculateConfidence_Uncapped(execution) ==
    LET afterMissing == IF Len(execution.missingContext) > 0
                        THEN DSub(One, DMulInt(PerMissingItem, Len(execution.missingContext)))
                        ELSE One
        afterContinue == IF execution.continue = "true"
                         THEN DSub(afterMissing, FlagPenalty) ELSE afterMissing
        score == IF execution.questionForUser = "true"
                 THEN DSub(afterContinue, FlagPenalty) ELSE afterContinue
    IN  DMax(Zero, DMin(One, score))

\* A calculateConfidence that penalizes no more than three items at all.
CalculateConfidence_DropsOverCap(execution) ==
    LET afterMissing == IF Len(execution.missingContext) > 0
                           /\ Len(execution.missingContext) <= 3
                        THEN DSub(One, DMulInt(PerMissingItem, Len(execution.missingContext)))
                        ELSE One
        afterContinue == IF execution.continue = "true"
                         THEN DSub(afterMissing, FlagPenalty) ELSE afterMissing
        score == IF execution.questionForUser = "true"
                 THEN DSub(afterContinue, FlagPenalty) ELSE afterContinue
    IN  DMax(Zero, DMin(One, score))

\* calculateConfidence(execution).
CalculateConfidence(execution) ==
    LET afterMissing == IF Len(execution.missingContext) > 0
                        THEN DSub(One, DMulInt(PerMissingItem,
                                               Min(Len(execution.missingContext), 3)))
                        ELSE One
        afterContinue == IF execution.continue = "true"
                         THEN DSub(afterMissing, FlagPenalty) ELSE afterMissing
        score == IF execution.questionForUser = "true"
                 THEN DSub(afterContinue, FlagPenalty) ELSE afterContinue
    IN  DMax(Zero, DMin(One, score))

\* analyzeSelfAwareness(execution).
AnalyzeSelfAwareness(execution) ==
    LET needsContinue == execution.continue = "true"
        hasQuestion == execution.questionForUser = "true"
    IN  [complete |-> Len(execution.missingContext) = 0 /\ ~needsContinue /\ ~hasQuestion,
         missingContext |-> execution.missingContext,
         needsContinue |-> needsContinue,
         hasQuestion |-> hasQuestion,
         confidence |-> CalculateConfidence(execution)]

\* A retry test that forgets the bound on the retries.
GivesUp_NoBound(autoRetry, att, maxRetries) == ~autoRetry

\* A retry test that lets the last cycle retry once more.
GivesUp_OneTooMany(autoRetry, att, maxRetries) == ~autoRetry \/ att > maxRetries

\* if (!autoRetry || attempt >= maxRetries)
GivesUp(autoRetry, att, maxRetries) == ~autoRetry \/ att >= maxRetries

\* A result that reports the attempt index instead of the number of cycles.
DoneResult_AttemptIndex(execution, schema, awareness, att) ==
    [kind |-> "result", execution |-> execution,
     futureSelfBridge |-> [schemaPlanned |-> schema, selfAwareness |-> awareness,
                           attempts |-> att, complete |-> TRUE, reason |-> Absent]]

\* The value returned for a complete cycle.
DoneResult(execution, schema, awareness, att) ==
    [kind |-> "result", execution |-> execution,
     futureSelfBridge |-> [schemaPlanned |-> schema, selfAwareness |-> awareness,
                           attempts |-> att + 1, complete |-> TRUE, reason |-> Absent]]

\* An incomplete result whose reason follows the autoRetry flag alone.
ExhaustedResult_ByFlag(execution, schema, awareness, att, maxRetries) ==
    [kind |-> "result", execution |-> execution,
     futureSelfBridge |-> [schemaPlanned |-> schema, selfAwareness |-> awareness,
                           attempts |-> att + 1, complete |-> FALSE,
                           reason |-> IF call.autoRetry THEN "max_retries_reached"
                                      ELSE "auto_retry_disabled"]]

\* The value returned for an incomplete cycle that is not retried.
ExhaustedResult(execution, schema, awareness, att, maxRetries) ==
    [kind |-> "result", execution |-> execution,
     futureSelfBridge |-> [schemaPlanned |-> schema, selfAwareness |-> awareness,
                           attempts |-> att + 1, complete |-> FALSE,
                           reason |-> IF att >= maxRetries THEN "max_retries_reached"
                                      ELSE "auto_retry_disabled"]]

\* A next context that counts every retry as the first.
NextContext_Restarts(context, awareness, schema, execution) ==
    [caller |-> context.caller,
     retry |-> <<[previousAttempts |-> 1,
                  missingContextFromPreviousRun |-> awareness.missingContext,
                  previousSchema |-> schema,
                  previousResponse |-> execution.response]>>]

\* The context of the next cycle.
NextContext(context, awareness, schema, execution) ==
    [caller |-> context.caller,
     retry |-> <<[previousAttempts |->
                     (IF context.retry = <<>> THEN 0 ELSE context.retry[1].previousAttempts) + 1,
                  missingContextFromPreviousRun |-> awareness.missingContext,
                  previousSchema |-> schema,
                  previousResponse |-> execution.response]>>]

\* An error whose message is a prefix and the message of its cause.
Failures == {"Request timeout", "Rate limit exceeded"}
\* A wrapper that drops the message of its cause.
BridgeFailed_NoCause(message) == <<"Future Self Bridge execution failed">>
\* throw new Error(`Agent execution failed: ${error.message}`)
AgentFailed(message) == <<"Agent execution failed">> \o message
\* throw new Error(`Future Self Bridge execution failed: ${error.message}`)
BridgeFailed(message) == <<"Future Self Bridge execution failed">> \o message

(***************************************************************************)
(* Future Self Bridge: the execute call.                                   *)
(***************************************************************************)
\* The values a caller gives as signatureAlgorithm, and leaving it out.
SignatureOptions == {Undefined, Null, "", "ecdsa", "ml-dsa-65"}

\* if (signatureAlgorithm): undefined, null and the empty string are falsy.
Truthy(v) == v \notin {Undefined, Null, ""}

\* A request body that carries the algorithm inside its context.
ExecutorRequest_Nested(schema, context, signatureAlgorithm) ==
    [expectedSchema |-> schema,
     context |-> [caller |-> context.caller, retry |-> context.retry,
                  signatureAlgorithm |-> signatureAlgorithm],
     signatureAlgorithm |-> Absent]

\* The body executeWithSchema posts: the context given with expectedSchema
\* added, and signatureAlgorithm at the top level when it is truthy.
ExecutorRequest(schema, context, signatureAlgorithm) ==
    [expectedSchema |-> schema,
     context |-> context,
     signatureAlgorithm |-> IF Truthy(signatureAlgorithm) THEN signatureAlgorithm
                                                          ELSE Absent]

\* A loop that tests its condition after the first cycle only.
LoopHead_DoWhile(att, maxRetries) ==
    IF att = 0 \/ att <= maxRetries
    THEN /\ epc' = "planning"
         /\ counts' = [counts EXCEPT !.planner = @ + 1]
         /\ result' = <<>>
    ELSE /\ epc' = "returned"
         /\ counts' = counts
         /\ result' = [kind |-> "undefined"]

\* The head of the loop: while (attempt <= maxRetries) starts a cycle with
\* a planner request, and the function ends without a value otherwise.
LoopHead(att, maxRetries) ==
    IF att <= maxRetries
    THEN /\ epc' = "planning"
         /\ counts' = [counts EXCEPT !.planner = @ + 1]
         /\ result' = <<>>
    ELSE /\ epc' = "returned"
         /\ counts' = counts
         /\ result' = [kind |-> "undefined"]

\* execute(agentType, query, {maxRetries, autoRetry, context}) up to its
\* first await.
ExecuteIn(agentType, maxRetries, autoRetry, context, signatureAlgorithm) ==
    /\ call' = [agentType |-> agentType, maxRetries |-> maxRetries, autoRetry |-> autoRetry,
                signatureAlgorithm |-> IF signatureAlgorithm = Undefined
                                       THEN "PQ" ELSE signatureAlgorithm]
    /\ attempt' = 0
    /\ accumulatedContext' = [caller |-> context, retry |-> <<>>]
    /\ cycle' = [status |-> "none"]
    /\ LoopHead(0, maxRetries)
    /\ UNCHANGED memVars

Execute(agentType, maxRetries, autoRetry, signatureAlgorithm) ==
    /\ epc = "idle"
    /\ ExecuteIn(agentType, maxRetries, autoRetry, "caller context", signatureAlgorithm)
    /\ UNCHANGED <<client, peer>>

\* The planner request settles: planSchema returns and executeWithSchema
\* posts the executor request.
PlanSchemaDone(reply) ==
    /\ epc = "planning"
    /\ LET schema == PlanSchema(call.agentType, reply)
       IN  cycle' = [status |-> "executing", plannerReply |-> reply, schema |-> schema,
                     request |-> ExecutorRequest(schema, accumulatedContext,
                                                 call.signatureAlgorithm)]
    /\ counts' = [counts EXCEPT !.executor = @ + 1]
    /\ epc' = "executing"
    /\ UNCHANGED <<memVars, client, peer, call, attempt, accumulatedContext, result>>

\* The executor request fails: executeWithSchema throws and the catch of
\* execute throws in turn.
ExecuteWithSchemaFailed(message) ==
    /\ epc = "executing"
    /\ epc' = "threw"
    /\ cycle' = [status |-> "failed", plannerReply |-> cycle.plannerReply,
                 schema |-> cycle.schema, request |-> cycle.request, failure |-> message]
    /\ result' = [kind |-> "error", message |-> BridgeFailed(AgentFailed(<<message>>))]
    /\ UNCHANGED <<memVars, client, peer, call, attempt, accumulatedContext, counts>>

\* The executor request returns: the result is analysed, then returned or
\* folded into the context of the next cycle.
ExecuteWithSchemaDone(execution) ==
    /\ epc = "executing"
    /\ LET awareness == AnalyzeSelfAwareness(execution)
       IN  /\ cycle' = [status |-> "analysed", plannerReply |-> cycle.plannerReply,
                         schema |-> cycle.schema, request |-> cycle.request,
                         execution |-> execution]
           /\ IF awareness.complete
              THEN /\ epc' = "returned"
                   /\ result' = DoneResult(execution, cycle.schema, awareness, attempt)
                   /\ counts' = [counts EXCEPT !.analysed = @ + 1]
                   /\ UNCHANGED <<attempt, accumulatedContext>>
              ELSE IF GivesUp(call.autoRetry, attempt, call.maxRetries)
              THEN /\ epc' = "returned"
                   /\ result' = ExhaustedResult(execution, cycle.schema, awareness,
                                                attempt, call.maxRetries)
                   /\ counts' = [counts EXCEPT !.analysed = @ + 1]
                   /\ UNCHANGED <<attempt, accumulatedContext>>
              ELSE /\ accumulatedContext' =
                          NextContext(accumulatedContext, awareness, cycle.schema, execution)
                   /\ attempt' = attempt + 1
                   /\ IF attempt + 1 <= call.maxRetries
                      THEN /\ epc' = "planning"
                           /\ counts' = [counts EXCEPT !.analysed = @ + 1, !.planner = @ + 1]
                           /\ result' = <<>>
                      ELSE /\ epc' = "returned"
                           /\ counts' = [counts EXCEPT !.analysed = @ + 1]
                           /\ result' = [kind |-> "undefined"]
    /\ UNCHANGED <<memVars, client, peer, call>>

NoMemory ==
    /\ maxInteractions = 0
    /\ maxSummaries = 0
    /\ summaryAgent = FALSE
    /\ persistToFile = FALSE
    /\ loader = [pc |-> "done", data |-> <<>>]
    /\ tick = FALSE
    /\ EmptyMemory

\* One execute call, before it is made.
InitExecute ==
    /\ epc = "idle"
    /\ call = [agentType |-> "none", maxRetries |-> 0, autoRetry |-> FALSE,
             signatureAlgorithm |-> Undefined]
    /\ attempt = 0
    /\ accumulatedContext = <<>>
    /\ cycle = [status |-> "none"]
    /\ counts = [planner |-> 0, executor |-> 0, analysed |-> 0]
    /\ result = <<>>
    /\ client = NewClient
    /\ peer = NewPeer
    /\ NoMemory

Called ==
    \E a \in AgentTypes, n \in -1..MaxConfigRetries, r \in BOOLEAN, s \in SignatureOptions :
        Execute(a, n, r, s)
Planned == \E reply \in PlannerReplies : PlanSchemaDone(reply)
ExecutorFailed == \E m \in Failures : ExecuteWithSchemaFailed(m)
Executed == \E e \in Executions : ExecuteWithSchemaDone(e)

NextExecute == Called \/ Planned \/ ExecutorFailed \/ Executed
SpecExecute == InitExecute /\ [][NextExecute]_vars

\* planSchema called for one agent type after another on the same bridge; the
\* schemas returned are kept in result.
PlanSchemaCalled(agentType, reply) ==
    /\ Len(result) < MaxSchemaCalls
    /\ result' = Append(result, [agentType |-> agentType, reply |-> reply,
                                 schema |-> PlanSchema(agentType, reply)])
    /\ UNCHANGED <<memVars, client, peer, epc, call, attempt, accumulatedContext, cycle,
                   counts>>

SchemaPlanned == \E a \in SchemaAgentTypes, reply \in PlannerReplies : PlanSchemaCalled(a, reply)
SpecSchema == InitExecute /\ [][SchemaPlanned]_vars

\* Every planner request settles (planSchema returns either way) and every
\* executor request returns or fails.
SpecExecuteFair ==
    /\ InitExecute
    /\ [][NextExecute]_vars
    /\ WF_vars(Planned)
    /\ WF_vars(ExecutorFailed \/ Executed)

(***************************************************************************)
(* Future Self Bridge: analyzeSelfAwareness on its own.                    *)
(***************************************************************************)
Items(n) == [i \in 1..n |-> "item"]

\* The results analysed: up to MaxMissing missing-context items and either
\* flag true, false or a truthy value that is not a boolean.
AnalysisInputs ==
    [response : {"partial answer"},
     missingContext : {Items(n) : n \in 0..MaxMissing},
     continue : Flags,
     questionForUser : Flags]

InitAnalyze ==
    /\ epc = "off"
    /\ call = [agentType |-> "none", maxRetries |-> 0, autoRetry |-> FALSE,
             signatureAlgorithm |-> Undefined]
    /\ attempt = 0
    /\ accumulatedContext = <<>>
    /\ \E e \in AnalysisInputs : cycle = [status |-> "input", execution |-> e]
    /\ counts = [planner |-> 0, executor |-> 0, analysed |-> 0]
    /\ result = <<>>
    /\ client = NewClient
    /\ peer = NewPeer
    /\ NoMemory

\* bridge.analyzeSelfAwareness(execution), as the tests call it.
Analyze ==
    /\ cycle.status = "input"
    /\ cycle' = [cycle EXCEPT !.status = "analysed"]
    /\ result' = [kind |-> "analysis",
                  selfAwareness |-> AnalyzeSelfAwareness(cycle.execution)]
    /\ counts' = [counts EXCEPT !.analysed = @ + 1]
    /\ UNCHANGED <<memVars, client, peer, epc, call, attempt, accumulatedContext>>

\* The same result with one more penalty condition.
Penalized(execution) ==
    {[execution EXCEPT !.missingContext = Append(@, "item")] :
         x \in {y \in {1} : Len(execution.missingContext) < MaxMissing}}
      \cup {[execution EXCEPT !.continue = "true"] :
                x \in {y \in {1} : execution.continue # "true"}}
      \cup {[execution EXCEPT !.questionForUser = "true"] :
                x \in {y \in {1} : execution.questionForUser # "true"}}

\* The analysis is called again on the result with a penalty condition added.
AnalyzePenalized ==
    /\ cycle.status = "analysed"
    /\ \E e \in Penalized(cycle.execution) :
          /\ cycle' = [cycle EXCEPT !.execution = e]
          /\ result' = [kind |-> "analysis", selfAwareness |-> AnalyzeSelfAwareness(e)]
    /\ counts' = [counts EXCEPT !.analysed = @ + 1]
    /\ UNCHANGED <<memVars, client, peer, epc, call, attempt, accumulatedContext>>

NextAnalyze == Analyze \/ AnalyzePenalized
SpecAnalyze == InitAnalyze /\ [][NextAnalyze]_vars

(***************************************************************************)
(* Future Self Bridge: executeWithMemory.                                  *)
(***************************************************************************)
\* A context that holds the first 10 active interactions.
BuildContext_First10 ==
    [totalInteractions |-> totalCount,
     recentInteractions |->
         [i \in 1..Min(Len(interactions), 10) |->
             [role |-> interactions[i].role, text |-> interactions[i].text,
              ts |-> interactions[i].ts]],
     summaries |->
         [i \in 1..Len(summaries) |->
             [text |-> summaries[i].text, range |-> summaries[i].range,
              ts |-> summaries[i].ts]],
     memoryStats |-> [activeInteractions |-> Len(interactions),
                      totalSummaries |-> Len(summaries),
                      totalCount |-> totalCount]]

\* buildContext(): the count, the last 10 active interactions and all the
\* summaries, each reduced to the properties listed, and the statistics.
BuildContext ==
    [totalInteractions |-> totalCount,
     recentInteractions |->
         [i \in 1..Min(Len(interactions), 10) |->
             LET x == interactions[Len(interactions) - Min(Len(interactions), 10) + i]
             IN  [role |-> x.role, text |-> x.text, ts |-> x.ts]],
     summaries |->
         [i \in 1..Len(summaries) |->
             [text |-> summaries[i].text, range |-> summaries[i].range,
              ts |-> summaries[i].ts]],
     memoryStats |-> [activeInteractions |-> Len(interactions),
                      totalSummaries |-> Len(summaries),
                      totalCount |-> totalCount]]

\* A caller reads buildContext() between the calls of a scenario; the value
\* read is kept, and the reading is the last step looked at.
BuildContextCalled ==
    /\ result = <<>>
    /\ result' = [kind |-> "context", value |-> BuildContext]
    /\ UNCHANGED <<memVars, client, peer, epc, call, attempt, accumulatedContext, cycle, counts>>

NextBuildContext ==
    \/ result = <<>> /\ AddScenario
    \/ result = <<>> /\ SummarizedEither
    \/ result = <<>> /\ MetaSummarizedEither
    \/ result = <<>> /\ Saved
    \/ result = <<>> /\ Written
    \/ BuildContextCalled
SpecBuildContext == InitScenario /\ [][NextBuildContext]_vars

\* The memory context the current executeWithMemory call has built.
MemoryContext == accumulatedContext.caller.memory

\* The turns executeWithMemory has stored so far: the call holds no state of
\* its own between its awaits but the manager it writes to.
TurnsStored == totalCount - MemoryContext.totalInteractions

\* executeWithMemory(memoryManager, agentType, query, options) up to the
\* first await of execute: the context is built and execute is entered.
ExecuteWithMemory(agentType, maxRetries, autoRetry) ==
    /\ \/ epc = "idle"
       \/ epc = "returned" /\ result.kind = "result" /\ TurnsStored = 2 /\ AllIdle
    /\ ExecuteIn(agentType, maxRetries, autoRetry, [memory |-> BuildContext], Undefined)
    /\ UNCHANGED <<client, peer>>

\* An executeWithMemory that stores the user turn whether or not execute
\* has failed.
StoreUserTurn_Regardless ==
    /\ epc \in {"returned", "threw"}
    /\ TurnsStored = 0
    /\ AllIdle
    /\ AddInteraction(FreeSlot, "user", "query")

\* execute has returned: addInteraction({role: 'user', text: query, ...}).
StoreUserTurn ==
    /\ epc = "returned"
    /\ TurnsStored = 0
    /\ AllIdle
    /\ AddInteraction(FreeSlot, "user", "query")

\* A second addInteraction that stores the response as another user turn.
StoreAssistantTurn_UserRole ==
    /\ epc = "returned"
    /\ result.kind = "result"
    /\ TurnsStored = 1
    /\ AllIdle
    /\ AddInteraction(FreeSlot, "user", result.execution.response)

\* The user turn is stored: addInteraction({role: 'assistant',
\* text: result.response, ...}).
StoreAssistantTurn ==
    /\ epc = "returned"
    /\ result.kind = "result"
    /\ TurnsStored = 1
    /\ AllIdle
    /\ AddInteraction(FreeSlot, "assistant", result.execution.response)

\* The user turn is stored and execute had returned no value: reading
\* result.response throws a TypeError.
StoreAssistantTurnFailed ==
    /\ epc = "returned"
    /\ result.kind = "undefined"
    /\ TurnsStored = 1
    /\ AllIdle
    /\ epc' = "threw"
    /\ result' = [kind |-> "error", message |-> <<"TypeError">>]
    /\ UNCHANGED <<memVars, client, peer, call, attempt, accumulatedContext, cycle, counts>>

\* A manager without collaborator, with or without file, and a bridge that
\* is given it.
InitWithMemory ==
    /\ maxInteractions \in 1..MaxConfigInteractions
    /\ maxSummaries \in 1..MaxConfigSummaries
    /\ summaryAgent = FALSE
    /\ persistToFile \in BOOLEAN
    /\ loader = [pc |-> "done", data |-> <<>>]
    /\ tick = FALSE
    /\ EmptyMemory
    /\ epc = "idle"
    /\ call = [agentType |-> "none", maxRetries |-> 0, autoRetry |-> FALSE,
             signatureAlgorithm |-> Undefined]
    /\ attempt = 0
    /\ accumulatedContext = <<>>
    /\ cycle = [status |-> "none"]
    /\ counts = [planner |-> 0, executor |-> 0, analysed |-> 0]
    /\ result = <<>>
    /\ client = NewClient
    /\ peer = NewPeer

CalledWithMemory ==
    /\ counts.planner < MaxMemoryRequests
    /\ \E n \in -1..1, r \in BOOLEAN : ExecuteWithMemory("email", n, r)

NextWithMemory == CalledWithMemory \/ Planned \/ ExecutorFailed \/ Executed
                    \/ StoreUserTurn \/ StoreAssistantTurn \/ StoreAssistantTurnFailed \/ Saved
                    \/ Written
SpecWithMemory == InitWithMemory /\ [][NextWithMemory]_vars

(***************************************************************************)
(* The SchemaICU client: the signature setting and the calls made through  *)
(* it.                                                                     *)
(***************************************************************************)
\* const validAlgorithms = ['ml-dsa-65', 'ml-dsa-87', 'pq']
validAlgorithms == {"ml-dsa-65", "ml-dsa-87", "pq"}

\* getSignatureAlgorithm(): this.signatureAlgorithm || 'ecdsa'
GetSignatureAlgorithm ==
    IF Truthy(client.signatureAlgorithm) THEN client.signatureAlgorithm ELSE "ecdsa"

\* The body an agent posts for generate(query, context): signatureAlgorithm
\* is taken out of the context given and put at the top level when truthy.
AgentRequest(context) ==
    [context |-> context.rest,
     signatureAlgorithm |-> IF Truthy(context.signatureAlgorithm)
                            THEN context.signatureAlgorithm ELSE Absent]

\* usePostQuantum(algorithm): throws on a name that is not listed.
UsePostQuantum(algorithm) ==
    /\ client' = IF algorithm \in validAlgorithms
                 THEN [client EXCEPT !.signatureAlgorithm = algorithm]
                 ELSE client
    /\ UNCHANGED <<memVars, execVars, peer>>

\* useECDSA()
UseECDSA ==
    /\ client' = [client EXCEPT !.signatureAlgorithm = Null]
    /\ UNCHANGED <<memVars, execVars, peer>>

\* client.codeGenerator.generate(query, context): the agent was constructed
\* with the configuration alone and posts what its arguments give.
Generate(signatureAlgorithm) ==
    /\ client' = [client EXCEPT !.made =
                     [via |-> "agent", setting |-> client.signatureAlgorithm,
                      given |-> signatureAlgorithm,
                      body |-> AgentRequest([rest |-> "language",
                                             signatureAlgorithm |-> signatureAlgorithm])]]
    /\ UNCHANGED <<memVars, execVars, peer>>

\* executeFutureSelf(agentType, query, options) up to the first await of
\* execute: signatureAlgorithm: this.signatureAlgorithm || options.signatureAlgorithm
ExecuteFutureSelf(agentType, maxRetries, autoRetry, signatureAlgorithm) ==
    /\ epc \in {"idle", "returned", "threw"}
    /\ counts.planner < MaxClientRequests
    /\ client' = [client EXCEPT !.made =
                     [via |-> "bridge", setting |-> client.signatureAlgorithm,
                      given |-> signatureAlgorithm]]
    /\ ExecuteIn(agentType, maxRetries, autoRetry, "caller context",
                 IF Truthy(client.signatureAlgorithm) THEN client.signatureAlgorithm
                                                      ELSE signatureAlgorithm)
    /\ UNCHANGED peer

SetPostQuantum == \E a \in validAlgorithms \cup {"rsa"} : UsePostQuantum(a)
SetECDSA == UseECDSA
AgentCalled == \E s \in {Undefined, "ml-dsa-65"} : Generate(s)
BridgeCalled ==
    \E n \in 0..1, r \in BOOLEAN, s \in {Undefined, Null, "ml-dsa-65"} :
        ExecuteFutureSelf("email", n, r, s)

NextClient == SetPostQuantum \/ SetECDSA \/ AgentCalled \/ BridgeCalled
                 \/ Planned \/ ExecutorFailed \/ Executed
SpecClient == InitExecute /\ [][NextClient]_vars

(***************************************************************************)
(* Two execute calls on one bridge, given the same context object by the   *)
(* caller, and two managers constructed with the same options, without     *)
(* collaborator or file.  The second of each lives in peer and runs the    *)
(* same code, an execute cycle and an addInteraction each taken in one     *)
(* step.                                                                   *)
(***************************************************************************)
PeerUnchanged ==
    UNCHANGED <<maxInteractions, maxSummaries, summaryAgent, persistToFile, interactions,
                summaries, totalCount, file, loader, tasks, ghost, tick, execVars, client>>

\* The second call of execute up to its first await.
PeerExecute(maxRetries, autoRetry) ==
    /\ peer.epc = "idle"
    /\ peer' = [peer EXCEPT !.epc = IF 0 <= maxRetries THEN "running" ELSE "returned",
                            !.maxRetries = maxRetries,
                            !.autoRetry = autoRetry,
                            !.attempt = 0,
                            !.accumulatedContext = [caller |-> peer.context, retry |-> <<>>]]
    /\ PeerUnchanged
    /\ UNCHANGED clock

\* A cycle of the second call that keeps its counter on the bridge the two
\* calls share.
PeerCycle_OnBridge(reply, execution) ==
    /\ peer.epc = "running"
    /\ LET awareness == AnalyzeSelfAwareness(execution)
       IN  IF awareness.complete \/ GivesUp(peer.autoRetry, attempt, peer.maxRetries)
           THEN /\ peer' = [peer EXCEPT !.epc = "returned"]
                /\ attempt' = attempt
           ELSE /\ peer' = [peer EXCEPT !.accumulatedContext =
                                           NextContext(@, awareness,
                                                       PlanSchema("email", reply), execution)]
                /\ attempt' = attempt + 1
    /\ UNCHANGED <<memVars, client, epc, call, accumulatedContext, cycle, counts, result>>

\* One cycle of the second call: planner and executor requests settle and the
\* result is analysed.
PeerCycle(reply, execution) ==
    /\ peer.epc = "running"
    /\ LET awareness == AnalyzeSelfAwareness(execution)
       IN  IF awareness.complete \/ GivesUp(peer.autoRetry, peer.attempt, peer.maxRetries)
           THEN peer' = [peer EXCEPT !.epc = "returned"]
           ELSE peer' = [peer EXCEPT !.accumulatedContext =
                                        NextContext(@, awareness,
                                                    PlanSchema("email", reply), execution),
                                     !.attempt = @ + 1]
    /\ PeerUnchanged
    /\ UNCHANGED clock

\* The executor request of the second call fails.
PeerCycleFailed ==
    /\ peer.epc = "running"
    /\ peer' = [peer EXCEPT !.epc = "threw"]
    /\ PeerUnchanged
    /\ UNCHANGED clock

\* addInteraction on the second manager.
PeerAddInteraction(role, text) ==
    /\ peer.totalCount <= maxInteractions
    /\ LET now == clock + 1
           pushed == Append(peer.interactions,
                            [role |-> role, text |-> text, ts |-> now,
                             hash |-> InteractionHash(role, text, now)])
           r == IF Len(pushed) > maxInteractions
                THEN CompressOldInteractionsSync(pushed, peer.summaries, now)
                ELSE [interactions |-> pushed, summaries |-> peer.summaries]
       IN  /\ clock' = now
           /\ peer' = [peer EXCEPT !.interactions = r.interactions,
                                   !.summaries = r.summaries,
                                   !.totalCount = @ + 1]
    /\ PeerUnchanged

InitPeers ==
    /\ maxInteractions = 1
    /\ maxSummaries = 1
    /\ summaryAgent = FALSE
    /\ persistToFile = FALSE
    /\ loader = [pc |-> "done", data |-> <<>>]
    /\ tick = FALSE
    /\ EmptyMemory
    /\ epc = "idle"
    /\ call = [agentType |-> "none", maxRetries |-> 0, autoRetry |-> FALSE,
               signatureAlgorithm |-> Undefined]
    /\ attempt = 0
    /\ accumulatedContext = <<>>
    /\ cycle = [status |-> "none"]
    /\ counts = [planner |-> 0, executor |-> 0, analysed |-> 0]
    /\ result = <<>>
    /\ client = NewClient
    /\ peer = NewPeer

CalledShared ==
    /\ epc = "idle"
    /\ \E n \in 0..1 : ExecuteIn("email", n, TRUE, peer.context, Undefined)
    /\ UNCHANGED <<client, peer>>
AddOwn ==
    /\ AllIdle
    /\ totalCount <= maxInteractions
    /\ AddInteraction(FreeSlot, "user", "text")
PeerCalled == \E n \in 0..1 : PeerExecute(n, TRUE)
PeerCycled ==
    \E reply \in {"schema", "fail"} :
        \E e \in {x \in Executions : x.questionForUser = "false"} : PeerCycle(reply, e)
PeerAdded == PeerAddInteraction("user", "text")

NextPeers == CalledShared \/ Planned \/ ExecutorFailed \/ Executed \/ AddOwn \/ Saved
                \/ PeerCalled \/ PeerCycled \/ PeerCycleFailed \/ PeerAdded
SpecPeers == InitPeers /\ [][NextPeers]_vars

(***************************************************************************)
(* Two managers with persistence on and the same ownerName, memoryDir and  *)
(* day.  The first is the manager of the memory variables, constructed on  *)
(* an empty directory; the second lives in peer, is constructed at any     *)
(* time and calls addInteraction one call after the other, as the first.   *)
(***************************************************************************)
\* _getMemoryFilePath(): path.join(memoryDir, `${ownerName}-memory-${dateStr}.json`)
GetMemoryFilePath(memoryDir, ownerName, dateStr) == <<memoryDir, ownerName, "-memory-", dateStr, ".json">>

Unbuilt == [pc |-> "unbuilt", toCompress |-> <<>>, doc |-> <<>>]

\* new MemoryManager(options) for the second manager, with its
\* _initializeFileSystem and _loadFromFile run to their end: the document
\* found in the file, if there is one, becomes its state.
PeerConstruct ==
    /\ peer.task.pc = "unbuilt"
    /\ LET m == IF file = <<>> THEN [interactions |-> <<>>, summaries |-> <<>>, totalCount |-> 0]
                 ELSE LoadedState(file[1])
       IN  peer' = [peer EXCEPT !.interactions = m.interactions,
                                !.summaries = m.summaries,
                                !.totalCount = m.totalCount,
                                !.found = file,
                                !.task = IdleTask]
    /\ PeerUnchanged
    /\ UNCHANGED clock

\* addInteraction on the second manager up to the await of fs.writeFile.
PeerAddPersisted(role, text) ==
    /\ peer.task.pc = "idle"
    /\ LET now == clock + 1
           pushed == Append(peer.interactions,
                            [role |-> role, text |-> text, ts |-> now,
                             hash |-> InteractionHash(role, text, now)])
           r == IF Len(pushed) > maxInteractions
                THEN CompressOldInteractionsSync(pushed, peer.summaries, now)
                ELSE [interactions |-> pushed, summaries |-> peer.summaries]
       IN  /\ clock' = now
           /\ peer' = [peer EXCEPT !.interactions = r.interactions,
                                   !.summaries = r.summaries,
                                   !.totalCount = @ + 1,
                                   !.task = SaveToFileSync(r.interactions, r.summaries,
                                                           peer.totalCount + 1)]
    /\ PeerUnchanged

\* A write that adds its interactions to those of the document in the file.
PeerWriteDone_Merges(ok) ==
    /\ peer.task.pc = "write"
    /\ file' = IF ~ok THEN file
               ELSE IF file = <<>> THEN peer.task.doc
               ELSE <<[peer.task.doc[1] EXCEPT
                         !.interactions = file[1].interactions \o @]>>
    /\ peer' = [peer EXCEPT !.task = IdleTask]
    /\ UNCHANGED <<maxInteractions, maxSummaries, summaryAgent, persistToFile, interactions,
                   summaries, totalCount, loader, tasks, ghost, tick, execVars, client, clock>>

\* fs.writeFile of the second manager settles: its document replaces the
\* file, or the error is logged.
PeerWriteDone(ok) ==
    /\ peer.task.pc = "write"
    /\ file' = IF ok THEN peer.task.doc ELSE file
    /\ peer' = [peer EXCEPT !.task = IdleTask]
    /\ UNCHANGED <<maxInteractions, maxSummaries, summaryAgent, persistToFile, interactions,
                   summaries, totalCount, loader, tasks, ghost, tick, execVars, client, clock>>

InitTwoManagers ==
    /\ maxInteractions \in {1, DefaultMaxInteractions}
    /\ maxSummaries = DefaultMaxSummaries
    /\ summaryAgent = FALSE
    /\ persistToFile = TRUE
    /\ loader = [pc |-> "done", data |-> <<>>]
    /\ tick = FALSE
    /\ EmptyMemory
    /\ epc = "off"
    /\ call = [agentType |-> "none", maxRetries |-> 0, autoRetry |-> FALSE,
               signatureAlgorithm |-> Undefined]
    /\ attempt = 0
    /\ accumulatedContext = <<>>
    /\ cycle = [status |-> "none"]
    /\ counts = [planner |-> 0, executor |-> 0, analysed |-> 0]
    /\ result = <<>>
    /\ client = NewClient
    /\ peer = [NewPeer EXCEPT !.task = Unbuilt]

AddToFirst == AllIdle /\ clock < MaxAdds /\ AddInteraction(FreeSlot, "user", "text")
AddToSecond == clock < MaxAdds /\ PeerAddPersisted("user", "peer text")
PeerWritten == \E ok \in BOOLEAN : PeerWriteDone(ok)

NextTwoManagers == AddToFirst \/ Saved \/ Written
                      \/ PeerConstruct \/ AddToSecond \/ PeerWritten
SpecTwoManagers == InitTwoManagers /\ [][NextTwoManagers]_vars

(***************************************************************************)
(* Two calls of executeWithMemory that are given the same manager.  The    *)
(* first call is the one of the bridge variables and its addInteraction    *)
(* calls take slot 1; the second is the one of peer and takes slot 2.      *)
(* Every addInteraction awaits a file write, so that a call is suspended   *)
(* between its two turns.                                                  *)
(***************************************************************************)
HasTurn(role, text) ==
    \E i \in 1..Len(interactions) : interactions[i].role = role /\ interactions[i].text = text
PeerExecutions == {[response |-> "peer answer", missingContext |-> <<>>,
                    continue |-> "false", questionForUser |-> "false"]}

\* The first call: buildContext, then execute up to its first await.
CalledOnShared ==
    /\ epc = "idle"
    /\ ExecuteWithMemory("email", 0, FALSE)

\* execute has returned to the first call: addInteraction of the user turn.
StoreUserTurnShared ==
    /\ epc = "returned"
    /\ result.kind = "result"
    /\ ~HasTurn("user", "query")
    /\ AddInteraction(1, "user", "query")

\* A first call that stores the response without having stored the query.
StoreAssistantTurnShared_Unordered ==
    /\ epc = "returned"
    /\ result.kind = "result"
    /\ ~HasTurn("assistant", result.execution.response)
    /\ AddInteraction(1, "assistant", result.execution.response)

\* The addInteraction of the user turn has returned to the first call:
\* addInteraction of the assistant turn.
StoreAssistantTurnShared ==
    /\ epc = "returned"
    /\ result.kind = "result"
    /\ HasTurn("user", "query")
    /\ ~HasTurn("assistant", result.execution.response)
    /\ AddInteraction(1, "assistant", result.execution.response)

\* The second call: buildContext, then execute up to its first await.
PeerExecuteWithMemory ==
    /\ peer.epc = "idle"
    /\ peer' = [peer EXCEPT !.epc = "running",
                            !.maxRetries = 0,
                            !.autoRetry = FALSE,
                            !.attempt = 0,
                            !.context = [memory |-> BuildContext],
                            !.accumulatedContext = [caller |-> [memory |-> BuildContext],
                                                    retry |-> <<>>]]
    /\ PeerUnchanged
    /\ UNCHANGED clock

\* The only cycle of the second call ends: execute returns its result.
PeerExecuteDone(execution) ==
    /\ peer.epc = "running"
    /\ peer' = [peer EXCEPT !.epc = "returned",
                            !.result = [kind |-> "result", execution |-> execution]]
    /\ PeerUnchanged
    /\ UNCHANGED clock

\* execute has returned to the second call: addInteraction of the user turn.
PeerStoreUserTurn ==
    /\ peer.epc = "returned"
    /\ ~HasTurn("user", "peer query")
    /\ AddInteraction(2, "user", "peer query")

\* The addInteraction of the user turn has returned to the second call.
PeerStoreAssistantTurn ==
    /\ peer.epc = "returned"
    /\ HasTurn("user", "peer query")
    /\ ~HasTurn("assistant", peer.result.execution.response)
    /\ AddInteraction(2, "assistant", peer.result.execution.response)

InitShared ==
    /\ maxInteractions = DefaultMaxInteractions
    /\ maxSummaries = DefaultMaxSummaries
    /\ summaryAgent = FALSE
    /\ persistToFile = TRUE
    /\ loader = [pc |-> "done", data |-> <<>>]
    /\ tick = FALSE
    /\ EmptyMemory
    /\ epc = "idle"
    /\ call = [agentType |-> "none", maxRetries |-> 0, autoRetry |-> FALSE,
               signatureAlgorithm |-> Undefined]
    /\ attempt = 0
    /\ accumulatedContext = <<>>
    /\ cycle = [status |-> "none"]
    /\ counts = [planner |-> 0, executor |-> 0, analysed |-> 0]
    /\ result = <<>>
    /\ client = NewClient
    /\ peer = NewPeer

PlannedOnShared == \E reply \in {"schema", "fail"} : PlanSchemaDone(reply)
ExecutedOnShared ==
    \E e \in {x \in Executions : x.continue = "false" /\ x.questionForUser = "false"} :
        ExecuteWithSchemaDone(e)
PeerExecuted == \E e \in PeerExecutions : PeerExecuteDone(e)

NextShared == CalledOnShared \/ PlannedOnShared \/ ExecutorFailed \/ ExecutedOnShared
                 \/ StoreUserTurnShared \/ StoreAssistantTurnShared
                 \/ PeerExecuteWithMemory \/ PeerExecuted \/ PeerCycleFailed
                 \/ PeerStoreUserTurn \/ PeerStoreAssistantTurn \/ Written
SpecShared == InitShared /\ [][NextShared]_vars

(***************************************************************************)
(* Properties of the Memory Manager.                                       *)
(***************************************************************************)

\* C1: under serialized addInteraction calls on a manager that starts empty,
\* with maxInteractions >= 1 and maxSummaries >= 1, after each call has
\* returned the active list holds at most maxInteractions entries and the
\* summaries list at most maxSummaries.
C1_SizeBounds ==
    (AllIdle /\ maxInteractions >= 1 /\ maxSummaries >= 1)
        => /\ Len(interactions) <= maxInteractions
           /\ Len(summaries) <= maxSummaries

\* Both lists are full after a fold of summaries.
C1_Witness ==
    /\ AllIdle /\ maxInteractions >= 1 /\ maxSummaries >= 1
    /\ Len(interactions) = maxInteractions
    /\ Len(summaries) = maxSummaries
    /\ summaries[1].range.metaLevel

\* C2: under serialized addInteraction calls from an empty manager, the sum
\* of range.count over all summaries (meta-summaries included) plus the
\* number of active interactions equals totalCount, in every state.
C2_Conservative == SumCounts(summaries) + Len(interactions) = totalCount

\* A meta-summary stands for more interactions than it folded summaries.
C2_Witness ==
    /\ AllIdle
    /\ Len(interactions) >= 1
    /\ \E k \in 1..Len(summaries) :
          /\ summaries[k].range.metaLevel
          /\ summaries[k].range.count >= 3

\* The summaries whose range contains the interaction added at time id.
CoveredBy(id) ==
    {k \in 1..Len(summaries) :
        summaries[k].range.start <= id /\ id <= summaries[k].range.end}
IsActive(id) == \E k \in 1..Len(interactions) : interactions[k].ts = id
\* An interaction counted twice: in two summaries, or in one while active.
DoubleCounted ==
    \E id \in 1..clock : Cardinality(CoveredBy(id)) + (IF IsActive(id) THEN 1 ELSE 0) >= 2
\* An interaction removed from the active list that no summary covers.
Uncovered == \E id \in 1..clock : ~IsActive(id) /\ CoveredBy(id) = {}

\* C9: one manager is not safe for overlapping addInteraction calls when a
\* summarization collaborator is configured.  An interaction is counted
\* twice or removed without being covered only if a call started while
\* another was in flight on a manager with a collaborator; the witness shows
\* that such a state is reached.
C9_UnsafeOnlyByOverlap ==
    (DoubleCounted \/ Uncovered) => (ghost.overlap /\ summaryAgent)

\* Two calls were suspended in summarization on the same un-shrunk list and
\* both have folded: two summaries start at the same interaction.
C9_Witness ==
    /\ AllIdle
    /\ summaryAgent /\ ghost.overlap
    /\ maxInteractions >= 1
    /\ Len(summaries) = 2
    /\ ~summaries[1].range.metaLevel /\ ~summaries[2].range.metaLevel
    /\ summaries[1].range.start = summaries[2].range.start
    /\ DoubleCounted

\* C8: a manager constructed with persistence on finishes loading the existing
\* same-day file before any addInteraction takes effect, so once the load is
\* done the state holds what the file held plus every interaction added
\* since construction.
C8_LoadBeforeAdds ==
    (ghost.found # <<>> /\ ghost.loaded)
        => totalCount = ghost.found[1].totalCount + ghost.adds

\* No interaction or summary holds an undefined text.
Representable(m) ==
    /\ \A k \in 1..Len(m.interactions) : m.interactions[k].text # Undefined
    /\ \A k \in 1..Len(m.summaries) : m.summaries[k].text # Undefined

\* The new manager has loaded the state its predecessor saved, and nothing
\* has been added to it.
Reloaded == ghost.loaded /\ ghost.adds = 0 /\ ghost.prevSaved

\* C10 as stated: saving any reachable state and constructing a new manager
\* on the same file yields, once its load has finished, the same
\* interactions, summaries and totalCount.
C10_RoundTrip == Reloaded => MemoryState = ghost.prev[1]

\* C10 amended: the same, for the states in which no text is undefined.
C10_RoundTripRepresentable ==
    (Reloaded /\ Representable(ghost.prev[1])) => MemoryState = ghost.prev[1]

\* A state with an active interaction and a summary has been reloaded.
C10_Witness ==
    /\ Reloaded
    /\ Representable(ghost.prev[1])
    /\ Len(ghost.prev[1].interactions) >= 1
    /\ Len(ghost.prev[1].summaries) >= 1
    /\ MemoryState = ghost.prev[1]

(***************************************************************************)
(* Properties of the Future Self Bridge.                                   *)
(***************************************************************************)
Ended == epc \in {"returned", "threw"}
Bridge == result.futureSelfBridge

\* C3: with autoRetry on and maxRetries = N >= 0, one execute call runs at
\* most N+1 cycles (at most N+1 planner and N+1 executor requests), and when
\* its last cycle is incomplete too it returns after exactly N+1 cycles with
\* complete: false, reason max_retries_reached and attempts = N+1.
C3_RetryBound ==
    (epc # "idle" /\ call.autoRetry /\ call.maxRetries >= 0)
        => /\ counts.planner <= call.maxRetries + 1
           /\ counts.executor <= call.maxRetries + 1
           /\ counts.analysed <= call.maxRetries + 1
           /\ (epc = "returned" /\ ~AnalyzeSelfAwareness(cycle.execution).complete)
                 => /\ counts.analysed = call.maxRetries + 1
                    /\ result.kind = "result"
                    /\ Bridge.complete = FALSE
                    /\ Bridge.reason = "max_retries_reached"
                    /\ Bridge.attempts = call.maxRetries + 1

\* Every cycle of a call with retries was incomplete and the call gave up.
C3_Witness ==
    /\ epc = "returned" /\ call.autoRetry /\ call.maxRetries >= 1
    /\ result.kind = "result"
    /\ Bridge.reason = "max_retries_reached"
    /\ counts.planner = call.maxRetries + 1
    /\ counts.executor = call.maxRetries + 1

\* C4: an execute call with autoRetry = false runs exactly one cycle, whether
\* its result is complete or not, and the attempts it returns is 1.
C4_OneCycleWithoutRetry ==
    (Ended /\ ~call.autoRetry)
        => /\ counts.planner = 1
           /\ counts.executor = 1
           /\ epc = "returned" => (result.kind = "result" /\ Bridge.attempts = 1)

\* C5: execute ends at the first cycle whose awareness record is complete: no
\* request follows it, and the result carries complete: true, the schema
\* planned in that cycle, its awareness record and the number of cycles run.
C5_EndsAtFirstComplete ==
    (cycle.status = "analysed" /\ AnalyzeSelfAwareness(cycle.execution).complete)
        => /\ epc = "returned"
           /\ result.kind = "result"
           /\ result.execution = cycle.execution
           /\ Bridge = [schemaPlanned |-> cycle.schema,
                        selfAwareness |-> AnalyzeSelfAwareness(cycle.execution),
                        attempts |-> counts.analysed,
                        complete |-> TRUE,
                        reason |-> Absent]
           /\ counts.planner = counts.analysed
           /\ counts.executor = counts.analysed

\* A retry has ended complete, on the default schema.
C5_Witness ==
    /\ epc = "returned" /\ result.kind = "result"
    /\ Bridge.complete
    /\ Bridge.attempts = 2
    /\ Bridge.schemaPlanned = GetDefaultSchema(call.agentType)
    /\ accumulatedContext.retry # <<>>
    /\ accumulatedContext.retry[1].previousSchema = PlannedSchema

\* C6: when the executor request fails on any cycle, execute ends with an
\* error that carries the underlying message; no cycle follows, the failure
\* is not analysed and no result is returned.
C6_ExecutorFailureIsFatal ==
    /\ cycle.status = "failed"
          => /\ epc = "threw"
             /\ result = [kind |-> "error",
                          message |-> <<"Future Self Bridge execution failed",
                                        "Agent execution failed", cycle.failure>>]
             /\ counts.analysed = counts.executor - 1
             /\ counts.planner = counts.executor
    /\ epc = "threw" => cycle.status = "failed"

\* The executor request of a retry has failed.
C6_Witness ==
    /\ epc = "threw" /\ cycle.status = "failed"
    /\ counts.executor = 2 /\ counts.analysed = 1

\* C7: a planner request that fails, or whose reply carries no schema, never
\* aborts: planSchema returns the default schema of the agent type and the
\* cycle goes on to the executor request with that schema.
C7_PlannerFailureNotFatal ==
    /\ epc = "threw" => cycle.status = "failed"
    /\ (cycle.status # "none" /\ cycle.plannerReply \in {"fail", "noschema"})
          => /\ cycle.schema = GetDefaultSchema(call.agentType)
             /\ cycle.request.expectedSchema = cycle.schema
    /\ epc = "planning" => counts.executor = counts.planner - 1
    /\ epc \in {"executing", "threw"} => counts.executor = counts.planner

\* The planner request of a retry has failed and the executor request is out.
C7_Witness ==
    /\ epc = "executing"
    /\ cycle.plannerReply = "fail"
    /\ counts.planner = 2 /\ counts.executor = 2
    /\ call.agentType = "email"
    /\ "subject" \in cycle.request.expectedSchema.properties

(***************************************************************************)
(* Properties of the Memory Manager: failures and lifetime.                *)
(***************************************************************************)
MkdirFailed == MkdirDone(FALSE)
ReadFailed == ReadFile(FALSE)
WriteFailed == \E t \in Tasks : WriteDone(t, FALSE)

\* C11: a step in which directory creation, the file read (for a reason other
\* than the file not existing) or a file write fails leaves persistence
\* disabled, so that no later addInteraction or clearMemory issues a write.
C11_FailureDisablesPersistence ==
    [][(MkdirFailed \/ ReadFailed \/ WriteFailed) => ~persistToFile']_vars

\* States that only a persistence failure produces: persistence switched off
\* (mkdir failed), no file after a finished call with persistence on (every
\* write failed), or a file found at construction and not loaded (read failed).
AfterMkdirFailure == ~persistToFile
AfterWriteFailure == persistToFile /\ file = <<>> /\ ghost.adds >= 1 /\ AllIdle
AfterReadFailure == persistToFile /\ ghost.found # <<>> /\ loader.pc = "done" /\ ~ghost.loaded

\* C12: no failure of directory creation, file read or file write makes a
\* call fail, and after such a failure the interactions added to the manager
\* are all counted, the newest ones are active in order, the older ones are
\* folded into summaries and the size bounds hold, as with persistence off.
C12_InMemoryDespiteFailures ==
    /\ \A t \in Tasks : tasks[t].pc \in {"idle", "sumI", "sumS", "save", "write"}
    /\ (AfterMkdirFailure \/ AfterWriteFailure \/ AfterReadFailure)
          => /\ totalCount = ghost.adds
             /\ SumCounts(summaries) + Len(interactions) = totalCount
             /\ Len(interactions) <= maxInteractions
             /\ Len(summaries) <= maxSummaries
             /\ \A i \in 1..Len(interactions) :
                   interactions[i].ts = clock - Len(interactions) + i

\* Every write of three calls has failed and the calls have folded.
C12_Witness ==
    /\ AfterWriteFailure
    /\ loader.pc = "done"
    /\ ghost.adds = 3
    /\ summaries # <<>>
    /\ interactions # <<>>

\* C14 as stated: totalCount grows by one on every addInteraction and no
\* operation of a manager ever lowers it.
C14_NeverDecreases ==
    [][/\ (\E t \in Tasks, turn \in Turns : AddInteraction(t, turn.role, turn.text))
             => totalCount' = totalCount + 1
       /\ totalCount' >= totalCount]_vars

\* C14: totalCount grows by one on every addInteraction; the only steps of a
\* manager that lower it are clearMemory, which resets it to 0, and the
\* construction-time load, which replaces it by the file's count.
C14_LoweredOnlyByClearOrLoad ==
    [][/\ (\E t \in Tasks, turn \in Turns : AddInteraction(t, turn.role, turn.text))
             => totalCount' = totalCount + 1
       /\ totalCount' < totalCount
             => \/ LoadFromFile /\ totalCount' = loader.data[1].totalCount
                \/ (\E t \in Tasks : ClearMemory(t)) /\ totalCount' = 0]_vars

\* The manager was cleared after two interactions and has taken one since.
C14_Witness ==
    /\ ~ghost.loaded
    /\ ghost.adds = 3
    /\ totalCount = 1
    /\ Len(interactions) = 1

\* C13: when the summarization collaborator fails during a fold, the fold
\* completes with the locally built text: the captured entries are removed,
\* one summary whose range.count is their number (one meta-summary whose
\* range.count is the sum of theirs) is added, the call goes on to its save,
\* and the size bounds and the conservation equality hold as ever.
C13_FallbackFold ==
    /\ [](/\ SumCounts(summaries) + Len(interactions) = totalCount
          /\ (AllIdle /\ maxInteractions >= 1 /\ maxSummaries >= 1)
                => (Len(interactions) <= maxInteractions /\ Len(summaries) <= maxSummaries)
          /\ \A t \in Tasks : tasks[t].pc # "threw")
    /\ [][/\ \A t \in Tasks : SummarizeDone(t, "fail") =>
                LET toCompress == tasks[t].toCompress
                    summary == summaries'[Len(summaries')]
                IN  /\ interactions' = SliceFrom(interactions, Len(toCompress))
                    /\ Len(summaries') = Len(summaries) + 1
                    /\ summary.range.count = Len(toCompress)
                    /\ summary.text = "basic-summary"
                    /\ tasks'[t].pc \in {"sumS", "save"}
          /\ \A t \in Tasks : MetaSummarizeDone(t, "fail") =>
                LET toCompress == tasks[t].toCompress
                    metaSummary == summaries'[1]
                IN  /\ Len(summaries') = Len(summaries) - Len(toCompress) + 1
                    /\ metaSummary.range.count = SumCounts(toCompress)
                    /\ metaSummary.range.metaLevel
                    /\ metaSummary.text = "basic-meta"
                    /\ interactions' = interactions
                    /\ tasks'[t].pc = "save"]_vars

\* A fold of summaries has fallen back to the local text after four turns.
C13_Witness ==
    /\ summaryAgent /\ AllIdle
    /\ maxInteractions >= 1
    /\ Len(summaries) = 1
    /\ summaries[1].text = "basic-meta"
    /\ summaries[1].range.count = 4
    /\ Len(interactions) = 1

(***************************************************************************)
(* Properties of the documented folding scenarios.                         *)
(***************************************************************************)
AfterScenario == clock = 25 /\ AllIdle
                    /\ maxInteractions = DefaultMaxInteractions

\* C15 as stated: 25 interactions added to an empty manager with
\* maxInteractions = 21 leave exactly one summary, of the first 5
\* interactions, 20 active interactions and totalCount = 25.
C15_OneSummaryOfFive ==
    AfterScenario
        => /\ Len(summaries) = 1
           /\ summaries[1].range.count = 5
           /\ Len(interactions) = 20
           /\ totalCount = 25

\* C15: 25 interactions added to an empty manager with maxInteractions = 21
\* leave two summaries, of interactions 1-2 (made by the 22nd call) and 3-4
\* (made by the 24th), 21 active interactions and totalCount = 25.
C15_TwoSummariesOfTwo ==
    AfterScenario
        => /\ Len(summaries) = 2
           /\ summaries[1].range = [start |-> 1, end |-> 2, count |-> 2, metaLevel |-> FALSE]
           /\ summaries[2].range = [start |-> 3, end |-> 4, count |-> 2, metaLevel |-> FALSE]
           /\ summaries[1].ts = 22
           /\ summaries[2].ts = 24
           /\ Len(interactions) = 21
           /\ interactions[1].ts = 5
           /\ totalCount = 25

\* The 25th call has returned.
C15_Witness ==
    /\ AfterScenario
    /\ totalCount = 25
    /\ interactions[Len(interactions)].ts = 25

\* A step that folds the summaries of a manager with maxSummaries = 2 when a
\* third summary is created: within the addInteraction that creates it, or
\* when the collaborator's meta-summary arrives.
ThirdSummaryFolded ==
    /\ maxSummaries = TestMaxSummaries
    /\ summaries' # summaries
    /\ \/ ~summaryAgent /\ Len(summaries) = TestMaxSummaries
       \/ summaryAgent /\ Len(summaries) = TestMaxSummaries + 1

\* The two oldest summaries are folded into one meta-summary.
TwoOldestFolded ==
    summaries'[1].range = [start |-> summaries[1].range.start,
                           end |-> summaries[2].range.end,
                           count |-> summaries[1].range.count + summaries[2].range.count,
                           metaLevel |-> TRUE]

\* C16 as stated: with maxSummaries = 2, when a third summary is created the
\* two oldest are folded into one meta-summary with range.metaLevel = true
\* and summaries.length is 1 immediately afterwards.
C16_OnlyMetaSummaryLeft ==
    [][ThirdSummaryFolded => (TwoOldestFolded /\ Len(summaries') = 1)]_vars

\* C16: with maxSummaries = 2, when a third summary is created the two oldest
\* are folded into one meta-summary with range.metaLevel = true and
\* summaries.length is 2 immediately afterwards: the meta-summary followed by
\* the third summary.
C16_MetaSummaryAndThird ==
    [][ThirdSummaryFolded
          => /\ TwoOldestFolded
             /\ Len(summaries') = 2
             /\ ~summaries'[2].range.metaLevel
             /\ summaries'[2].range.start = summaries'[1].range.end + 1
             /\ summaryAgent => summaries'[2] = summaries[3]]_vars

\* The third summary of the compression test's configuration has been made
\* by the 8th call and the first two are folded.
C16_Witness ==
    /\ maxSummaries = TestMaxSummaries /\ maxInteractions = TestMaxInteractions
    /\ AllIdle /\ clock = 8
    /\ Len(summaries) = 2
    /\ summaries[1].range = [start |-> 1, end |-> 4, count |-> 4, metaLevel |-> TRUE]
    /\ summaries[2].range = [start |-> 5, end |-> 6, count |-> 2, metaLevel |-> FALSE]

(***************************************************************************)
(* Properties of executeWithMemory.                                        *)
(***************************************************************************)
Stored == epc = "returned" /\ result.kind = "result" /\ TurnsStored = 2 /\ AllIdle

\* C17: the memory context executeWithMemory hands to the planner and the
\* executor is the manager's context as it is before the call stores
\* anything, so the current query is not in it; a failed execution stores
\* nothing; after a successful one exactly two interactions are added, the
\* user turn with the query and then the assistant turn with the response,
\* and totalCount has grown by 2.
C17_ContextBeforeTurnsAfter ==
    epc # "idle"
        => /\ TurnsStored \in 0..2
           /\ epc \in {"planning", "executing"}
                 => /\ MemoryContext = BuildContext
                    /\ \A i \in DOMAIN MemoryContext.recentInteractions :
                          MemoryContext.recentInteractions[i].ts <= clock
           /\ cycle.status = "executing"
                 => cycle.request.context.caller.memory = BuildContext
           /\ (epc = "threw" /\ cycle.status = "failed") => TurnsStored = 0
           /\ Stored
                 => /\ totalCount = MemoryContext.totalInteractions + 2
                    /\ SumCounts(summaries) + Len(interactions) = totalCount
                    /\ maxInteractions >= 2
                          => /\ Len(interactions) >= 2
                             /\ interactions[Len(interactions) - 1] =
                                   [role |-> "user", text |-> "query", ts |-> clock - 1,
                                    hash |-> InteractionHash("user", "query", clock - 1)]
                             /\ interactions[Len(interactions)] =
                                   [role |-> "assistant",
                                    text |-> result.execution.response, ts |-> clock,
                                    hash |-> InteractionHash("assistant",
                                                result.execution.response, clock)]
                             /\ \A i \in DOMAIN MemoryContext.recentInteractions :
                                   MemoryContext.recentInteractions[i].ts < clock - 1

\* A second exchange has been stored; its context held the first one.
C17_Witness ==
    /\ Stored
    /\ MemoryContext.totalInteractions = 2
    /\ Len(MemoryContext.recentInteractions) = 2
    /\ MemoryContext.recentInteractions[1].text = "query"
    /\ totalCount = 4
    /\ maxInteractions = 2
    /\ summaries # <<>>

(***************************************************************************)
(* Properties of analyzeSelfAwareness and calculateConfidence.             *)
(***************************************************************************)
Analysed == cycle.status = "analysed"
Confidence == result.selfAwareness.confidence
Missing == Len(cycle.execution.missingContext)
BooleanFlags == /\ cycle.execution.continue \in {"true", "false"}
                /\ cycle.execution.questionForUser \in {"true", "false"}

\* C18: the analysis of a result is complete if and only if missingContext is
\* empty, continue is falsy and questionForUser is falsy, whatever values the
\* flags take: a truthy flag that is not a boolean makes it incomplete too.
C18_CompleteIffFalsy ==
    Analysed
        => (result.selfAwareness.complete
               <=> /\ Missing = 0
                   /\ cycle.execution.continue = "false"
                   /\ cycle.execution.questionForUser = "false")

\* The score in hundredths, in exact arithmetic: 100 less 20 per missing item
\* (three at most), less 15 for continue, less 15 for a question.
Hundredths ==
    Max(0, Min(100, 100 - 20 * Min(Missing, 3)
                        - (IF cycle.execution.continue = "true" THEN 15 ELSE 0)
                        - (IF cycle.execution.questionForUser = "true" THEN 15 ELSE 0)))

\* The double that the decimal h / 100 denotes, for the scores that occur.
DecimalDouble(h) ==
    CASE h = 100 -> [hi |-> 268435456, lo |-> 0]
      [] h = 85 -> [hi |-> 228170137, lo |-> 161061272]
      [] h = 80 -> [hi |-> 214748364, lo |-> 214748368]
      [] h = 70 -> [hi |-> 187904819, lo |-> 53687088]
      [] h = 65 -> [hi |-> 174483046, lo |-> 107374184]
      [] h = 60 -> [hi |-> 161061273, lo |-> 161061272]
      [] h = 50 -> [hi |-> 134217728, lo |-> 0]
      [] h = 45 -> [hi |-> 120795955, lo |-> 53687092]
      [] h = 40 -> [hi |-> 107374182, lo |-> 107374184]
      [] h = 30 -> [hi |-> 80530636, lo |-> 214748364]
      [] h = 25 -> [hi |-> 67108864, lo |-> 0]
      [] h = 10 -> [hi |-> 26843545, lo |-> 161061274]

\* a and b differ by at most tol units of 2^-56.
Near(a, b, tol) ==
    /\ a.hi - b.hi \in {-1, 0, 1}
    /\ (a.hi - b.hi) * Limb + (a.lo - b.lo) \in (0 - tol)..tol

\* C19 as stated: the confidence equals the decimal 1.0 - 0.2 per missing
\* item (three at most) - 0.15 for continue - 0.15 for a question; with four
\* missing items, continue and a question it is 0.1 and the result incomplete.
C19_ExactDecimal ==
    (Analysed /\ BooleanFlags)
        => /\ Confidence = DecimalDouble(Hundredths)
           /\ (Missing = 4 /\ Hundredths = 10)
                 => (~result.selfAwareness.complete /\ Confidence = DecimalDouble(10))

\* C19: the confidence is that decimal up to the rounding of the double
\* subtractions: within 2^-53 of it, equal to it with at most one missing
\* item, and 0.09999999999999992 (not 0.1) with four missing items, continue
\* and a question, where the result is incomplete.
C19_WithinRounding ==
    (Analysed /\ BooleanFlags)
        => /\ Near(Confidence, DecimalDouble(Hundredths), 8)
           /\ Missing <= 1 => Confidence = DecimalDouble(Hundredths)
           /\ (Missing = 4 /\ Hundredths = 10)
                 => /\ ~result.selfAwareness.complete
                    /\ Confidence = [hi |-> 26843545, lo |-> 161061268]

\* Four missing items, continue and a question have been analysed.
C19_Witness ==
    /\ Analysed
    /\ Missing = 4
    /\ cycle.execution.continue = "true"
    /\ cycle.execution.questionForUser = "true"
    /\ Confidence # DecimalDouble(10)
    /\ Near(Confidence, DecimalDouble(10), 8)

\* C20: the confidence lies in [0, 1], is exactly 1.0 for a result with no
\* missing context, no continue and no question, and does not increase when
\* the analysis is repeated with one more missing item, continue set or a
\* question set.
C20_MonotoneAndBounded ==
    /\ [](Analysed
            => /\ DLeq(Zero, Confidence) /\ DLeq(Confidence, One)
               /\ (/\ Missing = 0
                   /\ cycle.execution.continue = "false"
                   /\ cycle.execution.questionForUser = "false") => Confidence = One)
    /\ [][AnalyzePenalized => DLeq(Confidence', Confidence)]_vars

\* Every penalty has been added, one at a time, to a perfect result.
C20_Witness ==
    /\ Analysed
    /\ counts.analysed = MaxMissing + 3
    /\ Missing = MaxMissing
    /\ Confidence = [hi |-> 26843545, lo |-> 161061268]


(***************************************************************************)
(* Hashes of the stored entries.                                           *)
(***************************************************************************)
\* The hash recomputed from the stored fields of an entry.
RecomputedInteractionHash(x) == InteractionHash(x.role, x.text, x.ts)
RecomputedSummaryHash(s) == CreateHash([text |-> JSONText(s.text), ts |-> s.ts])

InteractionHashesMatch ==
    \A i \in DOMAIN interactions :
        interactions[i].hash = RecomputedInteractionHash(interactions[i])

SummaryHashesMatch ==
    \A i \in DOMAIN summaries : summaries[i].hash = RecomputedSummaryHash(summaries[i])

\* C21: every stored interaction and every stored summary or meta-summary
\* carries the hash of its own stored fields (role, text, timestamp of an
\* interaction; text, timestamp of a summary).
C21_HashesRecomputable == InteractionHashesMatch /\ SummaryHashesMatch


(***************************************************************************)
(* Signature algorithm of the requests.                                    *)
(***************************************************************************)
\* The request sent carries what the client's setting asks for: the
\* algorithm set by usePostQuantum, or no post-quantum algorithm.
Carries(sent, setting) ==
    IF setting \in validAlgorithms THEN sent = setting
    ELSE sent \notin validAlgorithms \cup {"PQ"}

\* C22: a request made through the client without an algorithm of its own
\* carries the algorithm set by usePostQuantum, and none that is post-quantum
\* after useECDSA, when getSignatureAlgorithm() returns 'ecdsa'.
C22_RequestsCarrySetting ==
    /\ (client.made.via = "agent" /\ client.made.given = Undefined)
          => Carries(client.made.body.signatureAlgorithm, client.made.setting)
    /\ (client.made.via = "bridge" /\ client.made.given = Undefined
          /\ cycle.status # "none")
          => Carries(cycle.request.signatureAlgorithm, client.made.setting)
    /\ client.signatureAlgorithm = Null => GetSignatureAlgorithm = "ecdsa"


\* The body executeWithSchema posts for each value it can be given.
TopLevelOnly ==
    \A s \in SignatureOptions :
        LET context == [caller |-> "caller context", retry |-> <<>>]
            body == ExecutorRequest("schema", context, s)
        IN  /\ body.context = context
            /\ body.signatureAlgorithm = IF s \in {"ecdsa", "ml-dsa-65"} THEN s ELSE Absent

\* The executor request in flight is the one executeWithSchema builds from
\* the accumulated context and the algorithm of the call.
RequestOfCall ==
    cycle.status = "executing"
        => /\ cycle.request.context = accumulatedContext
           /\ cycle.request.signatureAlgorithm =
                 IF call.signatureAlgorithm \in {"PQ", "ecdsa", "ml-dsa-65"}
                 THEN call.signatureAlgorithm ELSE Absent

\* C23: executeWithSchema puts signatureAlgorithm at the top level of the
\* body exactly when a (truthy) value is given and leaves the context as it was
\* given; without a value the body carries no algorithm; and all the executor
\* requests of one execute call carry the same algorithm.
C23_AlgorithmAtTopLevel ==
    /\ [](TopLevelOnly /\ RequestOfCall)
    /\ [][(cycle.status # "none" /\ cycle'.status # "none")
              => cycle'.request.signatureAlgorithm = cycle.request.signatureAlgorithm]_vars

\* The executor request of a second cycle carries the algorithm the call gave.
C23_Witness ==
    /\ attempt >= 1
    /\ cycle.status = "executing"
    /\ call.signatureAlgorithm = "ml-dsa-65"
    /\ cycle.request.signatureAlgorithm = "ml-dsa-65"


(***************************************************************************)
(* buildContext.                                                           *)
(***************************************************************************)
\* What the claim says buildContext returns, read off the manager.
ContextOf(value) ==
    LET n == Len(interactions)
        k == IF n < 10 THEN n ELSE 10
    IN  /\ value.totalInteractions = totalCount
        /\ Len(value.recentInteractions) = k
        /\ \A i \in 1..k :
              LET x == interactions[n - k + i]
                  y == value.recentInteractions[i]
              IN  y.role = x.role /\ y.text = x.text /\ y.ts = x.ts
        /\ Len(value.summaries) = Len(summaries)
        /\ \A i \in DOMAIN summaries :
              LET x == summaries[i]
                  y == value.summaries[i]
              IN  y.text = x.text /\ y.range = x.range /\ y.ts = x.ts
        /\ value.memoryStats = [activeInteractions |-> n,
                                 totalSummaries |-> Len(summaries),
                                 totalCount |-> totalCount]

\* C24: buildContext leaves the manager as it was (interactions, summaries,
\* totalCount, the file, no save started) and returns totalCount, the last
\* min(10, active) interactions in order, all the summaries and the counts.
C24_BuildContextReadsOnly ==
    [][(result = <<>> /\ result' # <<>>)
          => /\ memVars' = memVars
             /\ ContextOf(result'.value)]_vars

\* A context read with more than ten active interactions and a summary.
C24_Witness ==
    /\ result # <<>>
    /\ result.kind = "context"
    /\ result.value.memoryStats.activeInteractions > 10
    /\ Len(result.value.recentInteractions) = 10
    /\ result.value.memoryStats.totalSummaries >= 1


(***************************************************************************)
(* Two calls and two managers side by side.                                *)
(***************************************************************************)
\* What belongs to each execute call and to each manager.
OwnCall == <<attempt, accumulatedContext>>
OwnMemory == <<interactions, summaries, totalCount>>
PeerCall == <<peer.attempt, peer.accumulatedContext>>
PeerMemory == <<peer.interactions, peer.summaries, peer.totalCount>>

\* C25: the attempt counter and accumulated context of an execute call are
\* changed only by steps of that call, the caller's context object by none,
\* and the interactions, summaries and totalCount of a manager only by
\* operations on that manager.
C25_NoInterference ==
    [][/\ peer'.context = peer.context
       /\ OwnCall' # OwnCall
             => /\ <<epc, counts>>' # <<epc, counts>>
                /\ peer' = peer
                /\ OwnMemory' = OwnMemory
       /\ PeerCall' # PeerCall
             => /\ peer'.epc # peer.epc \/ peer.epc = "running"
                /\ PeerMemory' = PeerMemory
                /\ OwnCall' = OwnCall /\ OwnMemory' = OwnMemory
       /\ OwnMemory' # OwnMemory
             => /\ ghost'.adds # ghost.adds
                /\ peer' = peer
                /\ OwnCall' = OwnCall
       /\ PeerMemory' # PeerMemory
             => /\ peer'.totalCount = peer.totalCount + 1
                /\ PeerCall' = PeerCall
                /\ OwnCall' = OwnCall /\ OwnMemory' = OwnMemory]_vars

\* Both calls are in their second cycle and both managers have folded.
C25_Witness ==
    /\ attempt = 1 /\ epc = "executing"
    /\ peer.attempt = 1 /\ peer.epc = "running"
    /\ Len(summaries) = 1
    /\ Len(peer.summaries) = 1
    /\ accumulatedContext.caller = peer.context
    /\ peer.accumulatedContext.caller = peer.context


(***************************************************************************)
(* Termination of execute.                                                 *)
(***************************************************************************)
InFlight == epc \in {"planning", "executing"}

\* The ways execute may end.
EndsDone == result.kind = "result" /\ Bridge.complete
EndsExhausted ==
    /\ result.kind = "result"
    /\ ~Bridge.complete
    /\ Bridge.reason \in {"max_retries_reached", "auto_retry_disabled"}
EndsFailed ==
    /\ result.kind = "error"
    /\ result.message[1] = "Future Self Bridge execution failed"

EndsProperly ==
    \/ EndsDone /\ ~EndsExhausted /\ ~EndsFailed
    \/ EndsExhausted /\ ~EndsDone /\ ~EndsFailed
    \/ EndsFailed /\ ~EndsDone /\ ~EndsExhausted

C27_DefaultSchemaShape ==
    \A i \in DOMAIN result :
        LET a == result[i].agentType
            p == result[i].schema.properties
        IN  result[i].reply # "schema"
               => /\ {"response", "includesCode", "code", "continue", "questionForUser",
                       "missingContext"} \subseteq p
                  /\ "subject" \in p <=> a \in {"email", "email-summary"}
                  /\ "tone" \in p <=> a \in {"email", "email-summary"}
                  /\ "keyPoints" \in p <=> a \in {"summary", "email-summary"}
                  /\ \A j \in DOMAIN result :
                        (result[j].reply # "schema" /\ result[j].agentType = a)
                            => result[j].schema = result[i].schema

\* The default schema of a plain agent type, asked after that of an agent type
\* with all the additions.
C27_Witness ==
    /\ Len(result) = 2
    /\ result[1].agentType = "email-summary" /\ result[1].reply = "fail"
    /\ result[2].agentType = "code-generator" /\ result[2].reply = "noschema"
    /\ "keyPoints" \in result[1].schema.properties
    /\ "subject" \notin result[2].schema.properties


(***************************************************************************)
(* Shape of the history under serialized calls.  An interaction is known   *)
(* by its timestamp: the n-th one added carries n.                         *)
(***************************************************************************)
\* The active list is the last interactions added, in the order added.
ActiveAreLatest ==
    \A i \in DOMAIN interactions : interactions[i].ts = clock - Len(interactions) + i

\* The summaries, first to last, cover the interactions before the active
\* ones in contiguous blocks, each counting what it covers.
SummariesCoverEarlier ==
    /\ \A j \in DOMAIN summaries :
          /\ summaries[j].range.start =
                IF j = 1 THEN 1 ELSE summaries[j - 1].range.end + 1
          /\ summaries[j].range.count =
                summaries[j].range.end - summaries[j].range.start + 1
          /\ summaries[j].range.count >= 1
    /\ (IF summaries = <<>> THEN 0 ELSE summaries[Len(summaries)].range.end)
          = clock - Len(interactions)

\* C28: under serialized addInteraction calls from an empty manager the
\* active list is exactly the most recently added interactions in insertion
\* order and the summaries cover the earlier ones as contiguous blocks in
\* order without overlap, so that every interaction added is either active or
\* counted in exactly one summary.
C28_OrderedPartition ==
    /\ ActiveAreLatest
    /\ SummariesCoverEarlier
    /\ \A id \in 1..clock :
          Cardinality(CoveredBy(id)) + (IF IsActive(id) THEN 1 ELSE 0) = 1

\* Two blocks of two interactions each and an active interaction after them.
C28_Witness ==
    /\ AllIdle
    /\ Len(summaries) = 2
    /\ summaries[1].range.count = 2
    /\ summaries[2].range.count = 2
    /\ Len(interactions) = 1
    /\ interactions[1].ts = 5


(***************************************************************************)
(* One fold of interactions.  A step that lengthens the summaries list by  *)
(* one summary that is no meta-summary is a fold of interactions that no   *)
(* fold of summaries has followed yet; the list folded is the active list, *)
(* with the interaction the step adds when it is an addInteraction.        *)
(***************************************************************************)
InteractionsFolded ==
    /\ Len(summaries') = Len(summaries) + 1
    /\ ~summaries'[Len(summaries')].range.metaLevel

\* The timestamps of the active list the fold starts from, its length, and
\* the summary the fold makes.
FoldedFrom ==
    [i \in 1..(Len(interactions) + (IF clock' # clock THEN 1 ELSE 0)) |->
        IF i <= Len(interactions) THEN interactions[i].ts ELSE clock']
NewSummary == summaries'[Len(summaries')]

\* The fold has taken the n oldest of the list.
FoldTakes(n) ==
    /\ n >= 1
    /\ n <= Len(FoldedFrom)
    /\ NewSummary.range.count = n
    /\ NewSummary.range.start = FoldedFrom[1]
    /\ NewSummary.range.end = FoldedFrom[n]
    /\ SubSeq(summaries', 1, Len(summaries)) = summaries
    /\ Len(interactions') = Len(FoldedFrom) - n
    /\ \A i \in DOMAIN interactions' : interactions'[i].ts = FoldedFrom[n + i]
    /\ \A i \in DOMAIN interactions' :
          n + i <= Len(interactions) => interactions'[i] = interactions[n + i]

\* C29 as stated: a fold takes exactly the L - maxInteractions + 1 oldest
\* active interactions into one new summary with that count and the first and
\* last folded timestamps as its range, appended after the existing
\* summaries, and the remaining active interactions keep their order.
C29_FoldsExcessPlusOne ==
    [][InteractionsFolded => FoldTakes(Len(FoldedFrom) - maxInteractions + 1)]_vars

\* C29 as the code has it: the same for maxInteractions >= 1; with
\* maxInteractions = 0 the list holds one interaction and that one is folded.
C29_FoldsOldest ==
    [][InteractionsFolded
          => IF maxInteractions >= 1
             THEN FoldTakes(Len(FoldedFrom) - maxInteractions + 1)
             ELSE Len(FoldedFrom) = 1 /\ FoldTakes(1)]_vars

\* A fold has left one older summary in front of the new one and one active
\* interaction behind.
C29_Witness ==
    /\ maxInteractions = 2
    /\ Len(summaries) = 2
    /\ summaries[2].range = [start |-> 3, end |-> 4, count |-> 2, metaLevel |-> FALSE]
    /\ Len(interactions) = 1
    /\ interactions[1].ts = 5


(***************************************************************************)
(* One fold of summaries.  A step that puts a new meta-summary first is a  *)
(* fold of summaries; when the same step has folded interactions, the list *)
(* folded ends with the summary of that fold.                              *)
(***************************************************************************)
SummariesFolded ==
    /\ summaries' # summaries
    /\ summaries' # <<>>
    /\ summaries'[1].range.metaLevel
    /\ summaries = <<>> \/ summaries'[1] # summaries[1]

\* The ranges of the summaries the fold starts from.
SummariesBefore ==
    IF interactions' = interactions /\ clock' = clock
    THEN [i \in DOMAIN summaries |-> [range |-> summaries[i].range]]
    ELSE LET n == Min(Len(FoldedFrom), Len(FoldedFrom) - maxInteractions + 1)
         IN  [i \in DOMAIN summaries |-> [range |-> summaries[i].range]]
                \o <<[range |-> [start |-> FoldedFrom[1], end |-> FoldedFrom[n],
                                 count |-> n, metaLevel |-> FALSE]]>>

\* The fold has taken the m oldest summaries.
MetaTakes(m) ==
    /\ m >= 1
    /\ m <= Len(SummariesBefore)
    /\ summaries'[1].range =
          [start |-> SummariesBefore[1].range.start,
           end |-> SummariesBefore[m].range.end,
           count |-> SumCounts(SubSeq(SummariesBefore, 1, m)),
           metaLevel |-> TRUE]
    /\ Len(summaries') = Len(SummariesBefore) - m + 1
    /\ \A i \in 2..Len(summaries') :
          /\ summaries'[i].range = SummariesBefore[m + i - 1].range
          /\ m + i - 1 <= Len(summaries) => summaries'[i] = summaries[m + i - 1]

\* C30 as stated: a fold of summaries replaces exactly the K - maxSummaries + 1
\* oldest summaries by one meta-summary placed first, with metaLevel true, the
\* sum of their counts, the start of the oldest and the end of the newest of
\* them, and the remaining summaries keep their order after it.
C30_MetaFoldsExcessPlusOne ==
    [][SummariesFolded => MetaTakes(Len(SummariesBefore) - maxSummaries + 1)]_vars

\* C30 as the code has it: the same for maxSummaries >= 1; with
\* maxSummaries = 0 all the K summaries are folded.
C30_MetaFoldsOldest ==
    [][SummariesFolded
          => IF maxSummaries >= 1
             THEN MetaTakes(Len(SummariesBefore) - maxSummaries + 1)
             ELSE MetaTakes(Len(SummariesBefore))]_vars

\* Two summaries of one interaction each have been folded and a third summary
\* follows the meta-summary.
C30_Witness ==
    /\ maxSummaries = 2
    /\ Len(summaries) = 2
    /\ summaries[1].range = [start |-> 1, end |-> 2, count |-> 2, metaLevel |-> TRUE]
    /\ summaries[2].range = [start |-> 3, end |-> 3, count |-> 1, metaLevel |-> FALSE]


(***************************************************************************)
(* The context of a retry.                                                 *)
(***************************************************************************)
\* A step that starts another cycle of the same call.
Retried == attempt' # attempt /\ call' = call

\* C31: on every retry the context of the next cycle is the previous one
\* with the caller's part kept and with missingContextFromPreviousRun,
\* previousSchema and previousResponse of the cycle just analysed and
\* previousAttempts one higher; attempt goes up by exactly one, and
\* previousAttempts is the number of cycles already run when the caller gave
\* none; the executor request of the cycle carries that context.
C31_RetryContext ==
    /\ [](cycle.status = "executing" => cycle.request.context = accumulatedContext)
    /\ [][Retried
            => /\ attempt' = attempt + 1
               /\ accumulatedContext'.caller = accumulatedContext.caller
               /\ Len(accumulatedContext'.retry) = 1
               /\ accumulatedContext'.retry[1] =
                     [previousAttempts |->
                         (IF accumulatedContext.retry = <<>> THEN 0
                          ELSE accumulatedContext.retry[1].previousAttempts) + 1,
                      missingContextFromPreviousRun |-> cycle'.execution.missingContext,
                      previousSchema |-> cycle.schema,
                      previousResponse |-> cycle'.execution.response]
               /\ accumulatedContext'.retry[1].previousAttempts = attempt'
               /\ epc' = "planning"]_vars

\* The executor request of a third cycle carries the context of two retries.
C31_Witness ==
    /\ attempt = 2
    /\ cycle.status = "executing"
    /\ cycle.request.context.retry[1].previousAttempts = 2
    /\ cycle.request.context.caller = "caller context"


(***************************************************************************)
(* Properties of the Memory Manager: the save of a returned call.          *)
(***************************************************************************)
Returns(t) == tasks[t].pc # "idle" /\ tasks'[t].pc = "idle"
SaveIssued(t) == tasks[t].pc # "write" /\ tasks'[t].pc = "write"
Begins == AllIdle /\ clock' # clock
StateDocument == <<MemoryData(interactions, summaries, totalCount)>>
SaveOfReturnedCall(t) ==
    /\ Begins => ~AllIdle'
    /\ Returns(t) => tasks[t].pc = "write"
    /\ SaveIssued(t) => tasks'[t].doc = StateDocument'
    /\ tasks[t].pc = "write"
          => /\ tasks'[t].pc \in {"write", "idle"}
             /\ tasks[t].doc = StateDocument
             /\ UNCHANGED <<interactions, summaries, totalCount>>
    /\ WriteDone(t, TRUE) => file' = StateDocument'

\* C32: with persistence on and serialized calls, a call of addInteraction
\* returns only from a write that it issued once, after its folds, with the
\* whole state as the document; if that write succeeds the file holds the
\* interactions, summaries and totalCount the manager has when the call returns.
C32_OneSavePerAdd ==
    [][persistToFile => \A t \in Tasks : SaveOfReturnedCall(t)]_vars

C32_Witness ==
    /\ persistToFile /\ AllIdle /\ totalCount = 4
    /\ Len(summaries) = 2 /\ summaries[1].range.metaLevel
    /\ file = StateDocument

(***************************************************************************)
(* Properties of overlapping calls on a manager without collaborator.      *)
(***************************************************************************)
Suspended(t) == tasks[t].pc \in {"sumI", "sumS"}

\* C33: on a manager without summarization collaborator no call of
\* addInteraction is ever suspended inside a fold, and in every state, also
\* while calls overlap, the conservation equality holds and (for
\* maxInteractions >= 1 and maxSummaries >= 1) so do the size bounds.
C33_AtomicWithoutAgent ==
    ~summaryAgent
        => /\ \A t \in Tasks : ~Suspended(t)
           /\ SumCounts(summaries) + Len(interactions) = totalCount
           /\ (maxInteractions >= 1 /\ maxSummaries >= 1)
                 => /\ Len(interactions) <= maxInteractions
                    /\ Len(summaries) <= maxSummaries

\* A third call has run while the second, which folded, awaits its save.
C33_Witness ==
    /\ ~summaryAgent /\ ghost.overlap
    /\ maxInteractions = 1 /\ maxSummaries = 1
    /\ tasks[1].pc = "save" /\ totalCount = 3
    /\ Len(interactions) = 1 /\ Len(summaries) = 1

(***************************************************************************)
(* Properties of executeWithMemory: a failed orchestration.                *)
(***************************************************************************)
Orchestrating == epc \in {"planning", "executing"}
OrchestrationFailed == epc = "threw" /\ cycle.status = "failed"
ManagerUnchanged == UNCHANGED <<interactions, summaries, totalCount, tasks, file, persistToFile>>

\* C34: while execute runs inside executeWithMemory, and once it has failed,
\* no step changes the manager: its interactions, summaries, totalCount and
\* file stay as they were when the context was built, and no call of the
\* manager (hence no save) is pending.
C34_FailureLeavesMemory ==
    /\ [](OrchestrationFailed
            => /\ AllIdle
               /\ totalCount = MemoryContext.totalInteractions
               /\ BuildContext = MemoryContext)
    /\ [][(Orchestrating \/ OrchestrationFailed) => ManagerUnchanged]_vars

\* The second exchange on a manager with a file has failed at the executor.
C34_Witness ==
    /\ OrchestrationFailed /\ persistToFile
    /\ counts.executor = 2
    /\ totalCount = 2 /\ file = StateDocument

(***************************************************************************)
(* Properties of two executeWithMemory calls on one manager.               *)
(***************************************************************************)
TurnIndex(role, text) ==
    CHOOSE i \in 1..Len(interactions) :
        interactions[i].role = role /\ interactions[i].text = text
\* Neither call built its context after the other had stored both turns:
\* each was in flight at some time while the other was.
ContextsOverlap ==
    /\ epc # "idle" /\ peer.epc # "idle"
    /\ MemoryContext.totalInteractions < 2
    /\ peer.context.memory.totalInteractions < 2
UserThenAssistant(query, response) ==
    HasTurn("assistant", response)
        => /\ HasTurn("user", query)
           /\ TurnIndex("user", query) < TurnIndex("assistant", response)
           /\ \/ TurnIndex("assistant", response) = TurnIndex("user", query) + 1
              \/ ContextsOverlap

\* C35: the assistant turn of an executeWithMemory call is recorded after its
\* user turn, and right after it unless the two calls that share the manager
\* overlap; for overlapping calls the turns of one may lie between the turns
\* of the other.
C35_AdjacentUnlessOverlap ==
    /\ UserThenAssistant("query", "partial answer")
    /\ UserThenAssistant("peer query", "peer answer")

\* The recorded order is user-A, user-B, assistant-A, assistant-B.
C35_Witness ==
    /\ AllIdle /\ Len(interactions) = 4
    /\ interactions[1].text = "query"
    /\ interactions[2].text = "peer query"
    /\ interactions[3].text = "partial answer"
    /\ interactions[4].text = "peer answer"
    /\ ContextsOverlap

(***************************************************************************)
(* Properties of executeFutureSelf: the algorithm of the executor request. *)
(***************************************************************************)
ViaBridge == client.made.via = "bridge" /\ cycle.status # "none"
SettingThenOption ==
    IF Truthy(client.made.setting) THEN client.made.setting
    ELSE IF Truthy(client.made.given) THEN client.made.given
    ELSE "PQ"

\* C36: the executor request of a call made through executeFutureSelf
\* carries at its top level the client's setting if one is set, otherwise
\* the option given with the call, otherwise 'PQ', and is never without an
\* algorithm.
C36_AlwaysAnAlgorithm ==
    ViaBridge
        => /\ cycle.request.signatureAlgorithm = SettingThenOption
           /\ cycle.request.signatureAlgorithm # Absent

\* A call given signatureAlgorithm: null on a client without setting has
\* posted an executor request without algorithm.
C36_Observed ==
    /\ ViaBridge
    /\ client.made.setting = Null /\ client.made.given = Null
    /\ cycle.request.signatureAlgorithm = Absent

(***************************************************************************)
(* Properties of execute: the reason of an incomplete result.              *)
(***************************************************************************)
Exhausted == epc = "returned" /\ result.kind = "result" /\ ~result.futureSelfBridge.complete
Reason == result.futureSelfBridge.reason

\* C37: an incomplete result says max_retries_reached exactly when the last
\* cycle had attempt >= maxRetries, which is when attempts = maxRetries + 1,
\* and auto_retry_disabled otherwise, which happens only with autoRetry off;
\* with autoRetry off and maxRetries = 0 it says max_retries_reached.
C37_ReasonOfExhausted ==
    Exhausted
        => /\ Reason \in {"max_retries_reached", "auto_retry_disabled"}
           /\ Reason = "max_retries_reached" <=> attempt >= call.maxRetries
           /\ Reason = "max_retries_reached"
                 <=> result.futureSelfBridge.attempts = call.maxRetries + 1
           /\ Reason = "auto_retry_disabled" => ~call.autoRetry
           /\ (~call.autoRetry /\ call.maxRetries = 0) => Reason = "max_retries_reached"

\* A call without retries and with maxRetries = 0 has ended incomplete.
C37_Witness ==
    /\ Exhausted /\ ~call.autoRetry /\ call.maxRetries = 0
    /\ Reason = "max_retries_reached"
    /\ result.futureSelfBridge.attempts = 1

(***************************************************************************)
(* Properties of execute: a negative maxRetries.                           *)
(***************************************************************************)
NoRequest == counts = [planner |-> 0, executor |-> 0, analysed |-> 0]

\* C38: a call of execute with maxRetries < 0 runs no cycle: it makes no
\* planner and no executor request and returns at once, without a value:
\* no result, complete or incomplete, and no error.
C38_NegativeRunsNothing ==
    (epc # "idle" /\ call.maxRetries < 0)
        => /\ epc = "returned"
           /\ result = [kind |-> "undefined"]
           /\ NoRequest
           /\ cycle.status = "none"
           /\ attempt = 0

\* execute has been called with maxRetries = -1 and has returned.
C38_Witness ==
    /\ epc = "returned" /\ call.maxRetries = -1
    /\ result.kind = "undefined" /\ NoRequest

(***************************************************************************)
(* Properties of the configurations with a maximum of 0.                   *)
(***************************************************************************)
DegenerateState ==
    /\ (maxInteractions = 0 \/ maxSummaries = 0)
          => SumCounts(summaries) + Len(interactions) = totalCount
    /\ (maxInteractions = 0 /\ AllIdle)
          => /\ interactions = <<>>
             /\ SumCounts(summaries) = totalCount
             /\ totalCount >= 1 => summaries # <<>>
    /\ (maxSummaries = 0 /\ AllIdle /\ summaries # <<>>)
          => /\ Len(summaries) = 1
             /\ summaries[1].range.metaLevel
             /\ Len(summaries) > maxSummaries
DegenerateFold ==
    /\ (maxInteractions = 0 /\ InteractionsFolded)
          => /\ NewSummary.range.count = 1
             /\ NewSummary.range.start = NewSummary.range.end
             /\ interactions' = <<>>
    /\ (maxSummaries = 0 /\ SummariesFolded) => Len(summaries') = 1
    /\ (maxSummaries = 0 /\ summaries # <<>>) => summaries' # <<>>

\* C39: with maxInteractions = 0 every returned addInteraction leaves the
\* active list empty, its interaction folded into a summary of count 1; with
\* maxSummaries = 0 every fold of summaries leaves one meta-summary, so that
\* after the first fold the list is never empty and is longer than the
\* maximum; the conservation equality holds in both configurations.
C39_FoldEveryTime == [](DegenerateState) /\ [][DegenerateFold]_vars

\* Three interactions added with both maxima 0: one meta-summary of count 3.
C39_Witness ==
    /\ maxInteractions = 0 /\ maxSummaries = 0 /\ AllIdle
    /\ totalCount = 3 /\ interactions = <<>>
    /\ Len(summaries) = 1 /\ summaries[1].range.count = 3

(***************************************************************************)
(* Properties of two managers on one file.                                 *)
(***************************************************************************)
FirstSaved == \E t \in Tasks : WriteDone(t, TRUE)
SecondSaved == PeerWriteDone(TRUE)
PeerDocument == <<MemoryData(peer.interactions, peer.summaries, peer.totalCount)>>
TextsIn(document) ==
    IF document = <<>> THEN {}
    ELSE {document[1].interactions[i].text : i \in DOMAIN document[1].interactions}
StampsOf(document, text) ==
    IF document = <<>> THEN {}
    ELSE {document[1].interactions[i].ts :
             i \in {j \in DOMAIN document[1].interactions :
                       document[1].interactions[j].text = text}}
SamePath ==
    \A d \in {"./memory"}, o1, o2 \in {"default", "other"}, day \in {"2026-01-01"} :
        GetMemoryFilePath(d, o1, day) = GetMemoryFilePath(d, o2, day) <=> o1 = o2

====
